---- MODULE Spec2Model ----
(***************************************************************************)
(* The city generation pipeline of City-Road3d-Generator                   *)
(* (src/city_generator): CityConfig, ZoneManager, RoadNetwork and          *)
(* CityGenerator, as one state machine.                                    *)
(*                                                                         *)
(* Numbers.  Python floats are kept in fixed point:                        *)
(*   - road widths in tenths of a unit (8.0 is 80, 8.0 * 0.8 is 64);       *)
(*   - densities and area shares in percent (0.6 is 60);                   *)
(*   - building_height in tenths (floors * 3.5 is floors * 35);            *)
(*   - square roots in 1/Scale units, rounded down.                        *)
(* Object references (a Road in an Intersection, a Building in a Zone's    *)
(* list) are positions in the list that owns the object: roads and         *)
(* buildings are only ever appended.                                       *)
(***************************************************************************)
EXTENDS Integers, Sequences, FiniteSets, TLC

VARIABLES
    config,               \* CityGenerator.config (shared by the three components)
    zones,                \* ZoneManager.zones
    zone_grid,            \* ZoneManager.zone_grid, as the tuple of its rows
    zone_type_map,        \* ZoneManager.zone_type_map
    roads,                \* RoadNetwork.roads
    intersections,        \* RoadNetwork.intersections, the dict in insertion order
    road_grid,            \* RoadNetwork.road_grid, as the set of cells that are True
    buildings,            \* CityGenerator.buildings
    generation_complete,  \* CityGenerator.generation_complete
    pc,                   \* where a running generate_city call stands
    bz,                   \* _generate_buildings: index of the next zone of its loop
    last                  \* outcome of the last finished operation

vars == <<config, zones, zone_grid, zone_type_map, roads, intersections,
          road_grid, buildings, generation_complete, pc, bz, last>>

----------------------------------------------------------------------------
(* Bounds of the model *)

\* a generate_city call starts only while fewer than MaxZones zones exist
MaxZones == 3
\* seed positions a seed may be drawn at (the first NumSeedSpots of SeedSpots)
NumSeedSpots == 3
\* a random integer of lo..hi is drawn within DrawSpread of lo or of hi
DrawSpread == 1
\* fixed-point scale of square roots
Scale == 100

\* the largest coordinate of the end points of the lines drawn one at a time
MaxCoord == 4

----------------------------------------------------------------------------
(* config.py *)

RESIDENTIAL == "residential"
COMMERCIAL == "commercial"
BUSINESS == "business"
LEISURE == "leisure"
PARKS == "parks"
INDUSTRIAL == "industrial"

ZoneType == {RESIDENTIAL, COMMERCIAL, BUSINESS, LEISURE, PARKS, INDUSTRIAL}

\* the order of "for zone_type in ZoneType"
ZoneTypeOrder == <<RESIDENTIAL, COMMERCIAL, BUSINESS, LEISURE, PARKS, INDUSTRIAL>>

\* __post_init__ defaults, densities in percent
DefaultZoneDensities ==
    [t \in ZoneType |->
        CASE t = RESIDENTIAL -> 60 [] t = COMMERCIAL -> 80 [] t = BUSINESS -> 90
          [] t = LEISURE -> 40 [] t = PARKS -> 10 [] t = INDUSTRIAL -> 70]

DefaultMaxBuildingHeight ==
    [t \in ZoneType |->
        CASE t = RESIDENTIAL -> 25 [] t = COMMERCIAL -> 40 [] t = BUSINESS -> 80
          [] t = LEISURE -> 15 [] t = PARKS -> 5 [] t = INDUSTRIAL -> 20]

DefaultMinBuildingHeight ==
    [t \in ZoneType |->
        CASE t = RESIDENTIAL -> 6 [] t = COMMERCIAL -> 8 [] t = BUSINESS -> 20
          [] t = LEISURE -> 3 [] t = PARKS -> 0 [] t = INDUSTRIAL -> 8]

\* A CityConfig.  zone_distribution is the dict in insertion order, as a
\* sequence of <<zone type, share in percent>>.
CityConfig(w, h, mrw, srw, lrw, mgs, sgs, dist, dens, minh, maxh) ==
    [width |-> w, height |-> h,
     main_road_width |-> mrw, secondary_road_width |-> srw, local_road_width |-> lrw,
     main_grid_size |-> mgs, secondary_grid_size |-> sgs,
     zone_distribution |-> dist, zone_densities |-> dens,
     min_building_height |-> minh, max_building_height |-> maxh]

----------------------------------------------------------------------------
(* Arithmetic helpers *)

Max(a, b) == IF a >= b THEN a ELSE b
Min(a, b) == IF a <= b THEN a ELSE b
Abs(a) == IF a < 0 THEN -a ELSE a

\* min(...) and max(...) of a non-empty set of integers
MinOf(S) == CHOOSE v \in S : \A u \in S : v <= u
MaxOf(S) == CHOOSE v \in S : \A u \in S : v >= u

\* Python's range(a, b, step) for step > 0, as a sequence
Range(a, b, step) ==
    [i \in 1..(IF b <= a THEN 0 ELSE (b - a + step - 1) \div step) |-> a + (i - 1) * step]

RECURSIVE Flatten(_)
Flatten(ss) == IF ss = <<>> THEN <<>> ELSE Head(ss) \o Flatten(Tail(ss))

\* a power of two that is at least the square root of n (n < 214369)
SqrtUpper(n) ==
    IF n <= 64 THEN (IF n <= 4 THEN 2 ELSE IF n <= 16 THEN 4 ELSE 8)
    ELSE IF n <= 1024 THEN (IF n <= 256 THEN 16 ELSE 32)
    ELSE IF n <= 16384 THEN (IF n <= 4096 THEN 64 ELSE 128) ELSE 463

\* Newton's iteration for the integer square root of N > 0, from x above it
RECURSIVE Newton(_, _)
Newton(N, x) == LET y == (x + N \div x) \div 2 IN IF y >= x THEN x ELSE Newton(N, y)

\* math.sqrt / np.sqrt of an integer n >= 0, in 1/Scale units, rounded down
Sqrt(n) == IF n = 0 THEN 0 ELSE Newton(n * Scale * Scale, Scale * SqrtUpper(n))

----------------------------------------------------------------------------
(* zones.py *)

\* Zone.__init__; buildings holds positions in CityGenerator.buildings
Zone(zone_type, x, y, width, height, density) ==
    [zone_type |-> zone_type, x |-> x, y |-> y, width |-> width, height |-> height,
     density |-> density, buildings |-> <<>>]

\* Zone.contains_point
contains_point(zone, x, y) ==
    /\ zone.x <= x /\ x < zone.x + zone.width
    /\ zone.y <= y /\ y < zone.y + zone.height

\* ZoneManager.__init__: zone_grid[y][x] = 0; rows and columns count from 1
\* here, so the cell (x, y) is zone_grid[y + 1][x + 1]
EmptyZoneGrid(cfg) == [y \in 1..cfg.height |-> [x \in 1..cfg.width |-> 0]]

\* avg_zone_size of _generate_zone_seeds
AvgZoneSize == 10000

\* generate_zones: zone_areas[zone_type] = int(total_area * percentage)
ZoneArea(cfg, pct) == (cfg.width * cfg.height * pct) \div 100

\* _generate_zone_seeds: the zone type of every seed, in zone_id order
RECURSIVE SeedTypes(_, _)
SeedTypes(cfg, dist) ==
    IF dist = <<>> THEN <<>>
    ELSE [i \in 1..Max(1, ZoneArea(cfg, Head(dist)[2]) \div AvgZoneSize) |-> Head(dist)[1]]
         \o SeedTypes(cfg, Tail(dist))

\* The raw positions a seed is drawn at (np.random.normal / randint): the
\* positions outside the plane are clamped by _generate_zone_seeds.
SeedSpots(cfg) ==
    << <<-2, -3>>, <<cfg.width \div 2, cfg.height \div 2>>,
       <<cfg.width + 1, cfg.height - 1>>, <<0, cfg.height + 2>>, <<cfg.width - 1, 0>> >>

SeedDraws(cfg) == {SeedSpots(cfg)[k] : k \in 1..Min(NumSeedSpots, Len(SeedSpots(cfg)))}

\* _generate_zone_seeds: seeds[zone_id] = (x, y, zone_type), x and y clamped
\* into the plane; draw[i] is the position drawn for seed i
_generate_zone_seeds(cfg, draw) ==
    LET types == SeedTypes(cfg, cfg.zone_distribution)
    IN  [i \in 1..Len(types) |->
            [x |-> Max(0, Min(cfg.width - 1, draw[i][1])),
             y |-> Max(0, Min(cfg.height - 1, draw[i][2])),
             zone_type |-> types[i]]] \o <<>>

\* pnoise2(x * noise_scale, y * noise_scale, octaves): a coherent noise value
\* in [-1, 1], in percent.  It is one value per cell, the same for every seed.
pnoise2(x, y) == ((x * 37 + y * 59 + ((x * y) % 7)) % 201) - 100

\* _get_zone_preference: the table gives (a, b) of the multiplier
\* a + normalized_distance * b, in tenths
PreferenceCoefficients(zone_type) ==
    CASE zone_type = BUSINESS -> <<5, 8>>
      [] zone_type = COMMERCIAL -> <<7, 6>>
      [] zone_type = RESIDENTIAL -> <<10, 0>>
      [] zone_type = INDUSTRIAL -> <<8, 4>>
      [] zone_type = PARKS -> <<10, 0>>
      [] zone_type = LEISURE -> <<9, 3>>
      [] OTHER -> <<10, 0>>

\* _get_zone_preference: normalized_distance, in 1/Scale units
NormalizedDistance(cfg, x, y) ==
    LET center_x == cfg.width \div 2
        center_y == cfg.height \div 2
        distance_to_center ==
            Sqrt((x - center_x) * (x - center_x) + (y - center_y) * (y - center_y))
        max_distance == Sqrt(center_x * center_x + center_y * center_y)
    IN  (distance_to_center * Scale) \div max_distance

\* _get_zone_preference: the multiplier, in 1/(10 * Scale) units
_get_zone_preference(cfg, x, y, zone_type) ==
    LET ab == PreferenceCoefficients(zone_type)
    IN  IF ab[2] = 0 THEN ab[1] * Scale
        ELSE ab[1] * Scale + ab[2] * NormalizedDistance(cfg, x, y)

\* modified_distance of _find_closest_zone
ModifiedDistance(cfg, x, y, seed, noise_val) ==
    Sqrt((x - seed.x) * (x - seed.x) + (y - seed.y) * (y - seed.y))
        * (100 + (noise_val * 3) \div 10)
        * _get_zone_preference(cfg, x, y, seed.zone_type)

\* _find_closest_zone: the loop over seeds.items() from seed i on; min_distance
\* is -1 for float('inf')
RECURSIVE ClosestFrom(_, _, _, _, _, _, _, _)
ClosestFrom(cfg, x, y, seeds, noise_val, i, min_distance, closest_zone_id) ==
    IF i > Len(seeds) THEN closest_zone_id
    ELSE LET modified_distance == ModifiedDistance(cfg, x, y, seeds[i], noise_val)
         IN  IF min_distance = -1 \/ modified_distance < min_distance
             THEN ClosestFrom(cfg, x, y, seeds, noise_val, i + 1, modified_distance, i)
             ELSE ClosestFrom(cfg, x, y, seeds, noise_val, i + 1, min_distance, closest_zone_id)

_find_closest_zone(cfg, x, y, seeds, noise_val) ==
    ClosestFrom(cfg, x, y, seeds, noise_val, 1, -1, 1)

\* generate_zones, lines 72-91: the zone grid assigned from the seeds
AssignZoneGrid(cfg, seeds) ==
    [y \in 1..cfg.height |->
        [x \in 1..cfg.width |->
            _find_closest_zone(cfg, x - 1, y - 1, seeds, pnoise2(x - 1, y - 1))] \o <<>>] \o <<>>

\* the four neighbours pushed by the flood fill
Neighbours(c) ==
    {<<c[1], c[2] + 1>>, <<c[1], c[2] - 1>>, <<c[1] + 1, c[2]>>, <<c[1] - 1, c[2]>>}

\* Mutation of Keeps: the flood fill without the test on the cell's zone id
KeepsAnyZone(grid, zone_id, visited, c) ==
    /\ c \notin visited
    /\ c[1] >= 0 /\ c[1] < Len(grid[1])
    /\ c[2] >= 0 /\ c[2] < Len(grid)

\* _find_connected_cells, lines 241-263: a popped cell is kept when it is not
\* yet visited, lies inside the plane and carries zone_id
Keeps(grid, zone_id, visited, c) ==
    /\ c \notin visited
    /\ c[1] >= 0 /\ c[1] < Len(grid[1])
    /\ c[2] >= 0 /\ c[2] < Len(grid)
    /\ grid[c[2] + 1][c[1] + 1] = zone_id

\* _find_connected_cells, lines 238-263: the flood fill, one ring of
\* neighbours at a time
RECURSIVE FloodFill(_, _, _, _)
FloodFill(grid, zone_id, visited, stack) ==
    LET kept == {c \in stack : Keeps(grid, zone_id, visited, c)}
        seen == {c : c \in visited \cup kept}
    IN  IF kept = {} THEN visited
        ELSE FloodFill(grid, zone_id, seen, {n : n \in UNION {Neighbours(c) : c \in kept}})

\* Mutation of StartPos: the last cell bearing zone_id in row-major order
StartPosLast(grid, zone_id) ==
    LET W == Len(grid[1])
        ys == {y \in 1..Len(grid) : \E x \in 1..W : grid[y][x] = zone_id}
        y0 == MaxOf(ys)
        x0 == MaxOf({x \in 1..W : grid[y0][x] = zone_id})
    IN  IF ys = {} THEN {} ELSE {<<x0 - 1, y0 - 1>>}

\* _find_connected_cells, lines 220-236: the first cell bearing zone_id in
\* row-major order, as a set of at most one cell
StartPos(grid, zone_id) ==
    LET W == Len(grid[1])
        ys == {y \in 1..Len(grid) : \E x \in 1..W : grid[y][x] = zone_id}
        y0 == MinOf(ys)
        x0 == MinOf({x \in 1..W : grid[y0][x] = zone_id})
    IN  IF ys = {} THEN {} ELSE {<<x0 - 1, y0 - 1>>}

\* _find_connected_cells: the cells returned, as a set
_find_connected_cells(grid, zone_id) ==
    FloodFill(grid, zone_id, {}, StartPos(grid, zone_id))

\* _find_connected_cells, lines 239-263: the loop on the stack; the cell
\* popped is the last one pushed, and the cells kept are appended in order
RECURSIVE FillLoop(_, _, _, _, _)
FillLoop(grid, zone_id, stack, visited, cells) ==
    IF stack = <<>> THEN cells
    ELSE LET c == stack[Len(stack)]
             rest == SubSeq(stack, 1, Len(stack) - 1)
         IN  IF Keeps(grid, zone_id, visited, c)
             THEN FillLoop(grid, zone_id,
                           rest \o << <<c[1], c[2] + 1>>, <<c[1], c[2] - 1>>,
                                      <<c[1] + 1, c[2]>>, <<c[1] - 1, c[2]>> >>,
                           visited \cup {c}, Append(cells, c))
             ELSE FillLoop(grid, zone_id, rest, visited, cells)

\* _find_connected_cells: the list returned
_find_connected_cells_list(grid, zone_id) ==
    LET start_pos == StartPos(grid, zone_id)
    IN  IF start_pos = {} THEN <<>>
        ELSE FillLoop(grid, zone_id, <<CHOOSE c \in start_pos : TRUE>>, {}, <<>>)

\* Mutation of ZoneOfCells: the extents taken as max + 1, not max - min + 1
ZoneOfCellsFromOrigin(cfg, zone_cells, zone_type) ==
    LET xs == {c[1] : c \in zone_cells}
        ys == {c[2] : c \in zone_cells}
    IN  Zone(zone_type, MinOf(xs), MinOf(ys), MaxOf(xs) + 1, MaxOf(ys) + 1,
             cfg.zone_densities[zone_type])

\* _create_zone_objects, lines 200-211: the Zone of a non-empty cell list
ZoneOfCells(cfg, zone_cells, zone_type) ==
    LET xs == {c[1] : c \in zone_cells}
        ys == {c[2] : c \in zone_cells}
        min_x == MinOf(xs)
        max_x == MaxOf(xs)
        min_y == MinOf(ys)
        max_y == MaxOf(ys)
    IN  Zone(zone_type, min_x, min_y, max_x - min_x + 1, max_y - min_y + 1,
             cfg.zone_densities[zone_type])

\* Mutation of CreateFrom: every zone gets the type of the first seed
RECURSIVE CreateFromFirstType(_, _, _, _, _)
CreateFromFirstType(cfg, grid, type_map, n, zone_id) ==
    IF zone_id > n THEN <<>>
    ELSE LET zone_cells == _find_connected_cells(grid, zone_id)
         IN  (IF zone_cells = {} THEN <<>>
              ELSE <<ZoneOfCells(cfg, zone_cells, type_map[1])>>)
             \o CreateFromFirstType(cfg, grid, type_map, n, zone_id + 1)

\* _create_zone_objects: the zones appended, in seeds.keys() order from
\* zone_id on; a seed whose id is on no cell gives no zone
RECURSIVE CreateFrom(_, _, _, _, _)
CreateFrom(cfg, grid, type_map, n, zone_id) ==
    IF zone_id > n THEN <<>>
    ELSE LET zone_cells == _find_connected_cells(grid, zone_id)
         IN  (IF zone_cells = {} THEN <<>>
              ELSE <<ZoneOfCells(cfg, zone_cells, type_map[zone_id])>>)
             \o CreateFrom(cfg, grid, type_map, n, zone_id + 1)

_create_zone_objects(cfg, grid, type_map, seeds) ==
    CreateFrom(cfg, grid, type_map, Len(seeds), 1)

----------------------------------------------------------------------------
(* roads.py *)

\* Road.__init__; width in hundredths
Road(start, end, width, road_type) ==
    [start |-> start, end |-> end, width |-> width, road_type |-> road_type]

\* Road.get_length() > 0: the square root of a sum of integer squares is
\* positive exactly when the road's two points differ
HasLength(road) ==
    (road.end[1] - road.start[1]) * (road.end[1] - road.start[1])
        + (road.end[2] - road.start[2]) * (road.end[2] - road.start[2]) > 0

\* Mutation of _generate_main_roads: the grid lines start at main_grid_size,
\* not at 0
_generate_main_roads_from_first(cfg) ==
    LET xs == Range(cfg.main_grid_size, cfg.width, cfg.main_grid_size)
        ys == Range(cfg.main_grid_size, cfg.height, cfg.main_grid_size)
    IN  [i \in 1..Len(xs) |->
            Road(<<xs[i], 0>>, <<xs[i], cfg.height - 1>>, cfg.main_road_width, "main")]
        \o [i \in 1..Len(ys) |->
            Road(<<0, ys[i]>>, <<cfg.width - 1, ys[i]>>, cfg.main_road_width, "main")]

\* _generate_main_roads: the roads appended
_generate_main_roads(cfg) ==
    LET xs == Range(0, cfg.width, cfg.main_grid_size)
        ys == Range(0, cfg.height, cfg.main_grid_size)
    IN  [i \in 1..Len(xs) |->
            Road(<<xs[i], 0>>, <<xs[i], cfg.height - 1>>, cfg.main_road_width, "main")]
        \o [i \in 1..Len(ys) |->
            Road(<<0, ys[i]>>, <<cfg.width - 1, ys[i]>>, cfg.main_road_width, "main")]

\* Mutation of _generate_secondary_roads: the lines of the main grid are not
\* skipped
_generate_secondary_roads_all(cfg) ==
    LET xs == Range(cfg.secondary_grid_size, cfg.width, cfg.secondary_grid_size)
        ys == Range(cfg.secondary_grid_size, cfg.height, cfg.secondary_grid_size)
    IN  [i \in 1..Len(xs) |->
            Road(<<xs[i], 0>>, <<xs[i], cfg.height - 1>>, cfg.secondary_road_width, "secondary")]
        \o [i \in 1..Len(ys) |->
            Road(<<0, ys[i]>>, <<cfg.width - 1, ys[i]>>, cfg.secondary_road_width, "secondary")]

\* _generate_secondary_roads: the roads appended
_generate_secondary_roads(cfg) ==
    LET xs == SelectSeq(Range(cfg.secondary_grid_size, cfg.width, cfg.secondary_grid_size),
                        LAMBDA x : x % cfg.main_grid_size # 0)
        ys == SelectSeq(Range(cfg.secondary_grid_size, cfg.height, cfg.secondary_grid_size),
                        LAMBDA y : y % cfg.main_grid_size # 0)
    IN  [i \in 1..Len(xs) |->
            Road(<<xs[i], 0>>, <<xs[i], cfg.height - 1>>, cfg.secondary_road_width, "secondary")]
        \o [i \in 1..Len(ys) |->
            Road(<<0, ys[i]>>, <<cfg.width - 1, ys[i]>>, cfg.secondary_road_width, "secondary")]

\* _generate_residential_roads
_generate_residential_roads(cfg, zone) ==
    LET local_grid_size == 50
        xs == Range(zone.x, zone.x + zone.width, local_grid_size)
        ys == Range(zone.y, zone.y + zone.height, local_grid_size)
    IN  Flatten([i \in 1..Len(xs) |-> Flatten([j \in 1..Len(ys) |->
            (IF xs[i] + local_grid_size <= zone.x + zone.width
             THEN <<Road(<<xs[i], ys[j]>>, <<xs[i] + local_grid_size, ys[j]>>,
                         cfg.local_road_width, "local")>>
             ELSE <<>>)
            \o
            (IF ys[j] + local_grid_size <= zone.y + zone.height
             THEN <<Road(<<xs[i], ys[j]>>, <<xs[i], ys[j] + local_grid_size>>,
                         cfg.local_road_width, "local")>>
             ELSE <<>>)])])

\* _generate_commercial_roads
_generate_commercial_roads(cfg, zone) ==
    LET local_grid_size == 40
        xs == Range(zone.x, zone.x + zone.width, local_grid_size)
        ys == Range(zone.y, zone.y + zone.height, local_grid_size * 2)
    IN  Flatten([i \in 1..Len(xs) |->
            IF xs[i] + local_grid_size <= zone.x + zone.width
            THEN Flatten([j \in 1..Len(ys) |->
                    IF ys[j] + local_grid_size <= zone.y + zone.height
                    THEN <<Road(<<xs[i], ys[j]>>, <<xs[i] + local_grid_size, ys[j]>>,
                                cfg.local_road_width, "local")>>
                    ELSE <<>>])
            ELSE <<>>])

\* _generate_business_roads
_generate_business_roads(cfg, zone) ==
    LET local_grid_size == 60
        xs == Range(zone.x, zone.x + zone.width, local_grid_size)
        ys == Range(zone.y, zone.y + zone.height, local_grid_size)
    IN  Flatten([i \in 1..Len(xs) |->
            IF xs[i] < zone.x + zone.width
            THEN <<Road(<<xs[i], zone.y>>, <<xs[i], zone.y + zone.height>>,
                        cfg.secondary_road_width, "local")>>
            ELSE <<>>])
        \o
        Flatten([j \in 1..Len(ys) |->
            IF ys[j] < zone.y + zone.height
            THEN <<Road(<<zone.x, ys[j]>>, <<zone.x + zone.width, ys[j]>>,
                        cfg.secondary_road_width, "local")>>
            ELSE <<>>])

\* _generate_industrial_roads; the width is local_road_width * 1.5
_generate_industrial_roads(cfg, zone) ==
    LET local_grid_size == 80
        xs == Range(zone.x, zone.x + zone.width, local_grid_size)
    IN  Flatten([i \in 1..Len(xs) |->
            IF xs[i] < zone.x + zone.width
            THEN <<Road(<<xs[i], zone.y>>, <<xs[i], zone.y + zone.height>>,
                        (cfg.local_road_width * 15) \div 10, "local")>>
            ELSE <<>>])

\* _generate_park_roads; the width is local_road_width * 0.8
_generate_park_roads(cfg, zone) ==
    IF zone.width > 100 \/ zone.height > 100
    THEN LET perimeter_points ==
                 << <<zone.x, zone.y>>,
                    <<zone.x + zone.width, zone.y>>,
                    <<zone.x + zone.width, zone.y + zone.height>>,
                    <<zone.x, zone.y + zone.height>>,
                    <<zone.x, zone.y>> >>
         IN  [i \in 1..(Len(perimeter_points) - 1) |->
                 Road(perimeter_points[i], perimeter_points[i + 1],
                      (cfg.local_road_width * 8) \div 10, "local")]
    ELSE <<>>

\* _generate_leisure_roads
_generate_leisure_roads(cfg, zone) ==
    LET local_grid_size == 45
        xs == Range(zone.x, zone.x + zone.width, local_grid_size)
        ys == Range(zone.y, zone.y + zone.height, local_grid_size * 2)
    IN  Flatten([i \in 1..Len(xs) |-> Flatten([j \in 1..Len(ys) |->
            IF /\ xs[i] + local_grid_size <= zone.x + zone.width
               /\ ys[j] + local_grid_size <= zone.y + zone.height
            THEN <<Road(<<xs[i], ys[j]>>, <<xs[i] + local_grid_size, ys[j]>>,
                        cfg.local_road_width, "local")>>
            ELSE <<>>])])

\* _generate_zone_roads
_generate_zone_roads(cfg, zone) ==
    CASE zone.zone_type = RESIDENTIAL -> _generate_residential_roads(cfg, zone)
      [] zone.zone_type = COMMERCIAL -> _generate_commercial_roads(cfg, zone)
      [] zone.zone_type = BUSINESS -> _generate_business_roads(cfg, zone)
      [] zone.zone_type = INDUSTRIAL -> _generate_industrial_roads(cfg, zone)
      [] zone.zone_type = PARKS -> _generate_park_roads(cfg, zone)
      [] zone.zone_type = LEISURE -> _generate_leisure_roads(cfg, zone)
      [] OTHER -> <<>>

\* _generate_local_roads
_generate_local_roads(cfg, zs) ==
    Flatten([i \in 1..Len(zs) |-> _generate_zone_roads(cfg, zs[i])])

\* center1 / center2 of _zone_distance and _add_zone_connector
ZoneCenter(zone) == <<zone.x + zone.width \div 2, zone.y + zone.height \div 2>>

\* _zone_distance, in 1/Scale units
_zone_distance(zone1, zone2) ==
    LET center1 == ZoneCenter(zone1)
        center2 == ZoneCenter(zone2)
    IN  Sqrt((center1[1] - center2[1]) * (center1[1] - center2[1])
             + (center1[2] - center2[2]) * (center1[2] - center2[2]))

\* the threshold of _connect_zones
ConnectDistance == 150

\* _add_zone_connector: the road appended
_add_zone_connector(cfg, zone1, zone2) ==
    Road(ZoneCenter(zone1), ZoneCenter(zone2), cfg.local_road_width, "local")

\* Mutation of _connect_zones: zones exactly 150 apart are connected too
_connect_zones_inclusive(cfg, zs) ==
    Flatten([i \in 1..Len(zs) |-> Flatten([k \in 1..(Len(zs) - i) |->
        IF _zone_distance(zs[i], zs[i + k]) <= ConnectDistance * Scale
        THEN <<_add_zone_connector(cfg, zs[i], zs[i + k])>>
        ELSE <<>>])])

\* _connect_zones: the roads appended
_connect_zones(cfg, zs) ==
    Flatten([i \in 1..Len(zs) |-> Flatten([k \in 1..(Len(zs) - i) |->
        IF _zone_distance(zs[i], zs[i + k]) < ConnectDistance * Scale
        THEN <<_add_zone_connector(cfg, zs[i], zs[i + k])>>
        ELSE <<>>])])

\* Intersection.__init__ then add_road, or add_road on the entry found:
\* inter is the dict in insertion order, road a position in RoadNetwork.roads
AddRoadAt(inter, point, road) ==
    IF \E k \in 1..Len(inter) : inter[k].position = point
    THEN [k \in 1..Len(inter) |->
            IF inter[k].position = point
            THEN [inter[k] EXCEPT !.connected_roads = Append(@, road)]
            ELSE inter[k]]
    ELSE Append(inter, [position |-> point, connected_roads |-> <<road>>])

\* _add_intersections_for_road
_add_intersections_for_road(inter, rs, road) ==
    AddRoadAt(AddRoadAt(inter, rs[road].start, road), rs[road].end, road)

\* the calls of _add_intersections_for_road made by _generate_main_roads and
\* _generate_secondary_roads for the roads at positions from..to of rs
RECURSIVE AddIntersections(_, _, _, _)
AddIntersections(inter, rs, from, to) ==
    IF from > to THEN inter
    ELSE AddIntersections(_add_intersections_for_road(inter, rs, from), rs, from + 1, to)

\* Mutation of LineX: the error is restored by dx / 2, not by dx
RECURSIVE LineXHalfError(_, _, _, _, _, _, _, _)
LineXHalfError(x, y, x1, sx, sy, dx, dy, err2) ==
    IF x = x1 THEN <<<<x, y>>>>
    ELSE LET e == err2 - 2 * dy
         IN  <<<<x, y>>>> \o
             (IF e < 0 THEN LineXHalfError(x + sx, y + sy, x1, sx, sy, dx, dy, e + dx)
              ELSE LineXHalfError(x + sx, y, x1, sx, sy, dx, dy, e))

\* _draw_line_on_grid, lines 279-287 and 298: the points marked by the loop
\* of the dx > dy branch and by the call after it; err is kept doubled
\* (err = dx / 2.0 is err2 = dx)
RECURSIVE LineX(_, _, _, _, _, _, _, _)
LineX(x, y, x1, sx, sy, dx, dy, err2) ==
    IF x = x1 THEN <<<<x, y>>>>
    ELSE LET e == err2 - 2 * dy
         IN  <<<<x, y>>>> \o
             (IF e < 0 THEN LineX(x + sx, y + sy, x1, sx, sy, dx, dy, e + 2 * dx)
              ELSE LineX(x + sx, y, x1, sx, sy, dx, dy, e))

\* _draw_line_on_grid, lines 288-298: the same for the other branch
RECURSIVE LineY(_, _, _, _, _, _, _, _)
LineY(x, y, y1, sx, sy, dx, dy, err2) ==
    IF y = y1 THEN <<<<x, y>>>>
    ELSE LET e == err2 - 2 * dx
         IN  <<<<x, y>>>> \o
             (IF e < 0 THEN LineY(x + sx, y + sy, y1, sx, sy, dx, dy, e + 2 * dy)
              ELSE LineY(x, y + sy, y1, sx, sy, dx, dy, e))

\* _draw_line_on_grid: the points handed to _mark_road_point, in order
LinePoints(start, end) ==
    LET dx == Abs(end[1] - start[1])
        dy == Abs(end[2] - start[2])
        sx == IF start[1] < end[1] THEN 1 ELSE -1
        sy == IF start[2] < end[2] THEN 1 ELSE -1
    IN  IF dx > dy THEN LineX(start[1], start[2], end[1], sx, sy, dx, dy, dx)
        ELSE LineY(start[1], start[2], end[2], sx, sy, dx, dy, dy)

\* Mutation of _mark_road_point: the half-extent is the whole width
_mark_road_point_wide(cfg, x, y, width) ==
    LET half_width == width \div 10
    IN  {<<nx, ny>> \in ((x - half_width)..(x + half_width))
                         \X ((y - half_width)..(y + half_width)) :
            /\ 0 <= nx /\ nx < cfg.width
            /\ 0 <= ny /\ ny < cfg.height}

\* _mark_road_point: the cells set to True; width in tenths, so
\* int(width // 2) is width \div 20
_mark_road_point(cfg, x, y, width) ==
    LET half_width == width \div 20
    IN  {<<nx, ny>> \in ((x - half_width)..(x + half_width))
                         \X ((y - half_width)..(y + half_width)) :
            /\ 0 <= nx /\ nx < cfg.width
            /\ 0 <= ny /\ ny < cfg.height}

\* _draw_line_on_grid: the cells set to True
_draw_line_on_grid(cfg, start, end, width) ==
    LET line == LinePoints(start, end)
    IN  UNION {_mark_road_point(cfg, line[i][1], line[i][2], width) : i \in 1..Len(line)}

\* _update_road_grid: the grid after every road of rs is drawn on grid
_update_road_grid(cfg, rs, grid) ==
    grid \cup UNION {_draw_line_on_grid(cfg, rs[i].start, rs[i].end, rs[i].width) :
                        i \in 1..Len(rs)}

\* Mutation of is_road: no bounds test, so that a negative index counts from
\* the end of the row or of the grid as a Python index does
is_road_unchecked(cfg, grid, x, y) == <<x % cfg.width, y % cfg.height>> \in grid

\* is_road on the grid given
is_road(cfg, grid, x, y) ==
    IF 0 <= x /\ x < cfg.width /\ 0 <= y /\ y < cfg.height
    THEN <<x, y>> \in grid
    ELSE FALSE

\* generate_road_network: roads, intersections and road_grid after the call
generate_road_network(cfg, zs, rs, inter, grid) ==
    LET rs1 == rs \o _generate_main_roads(cfg)
        inter1 == AddIntersections(inter, rs1, Len(rs) + 1, Len(rs1))
        rs2 == rs1 \o _generate_secondary_roads(cfg)
        inter2 == AddIntersections(inter1, rs2, Len(rs1) + 1, Len(rs2))
        rs3 == rs2 \o _generate_local_roads(cfg, zs)
        rs4 == rs3 \o _connect_zones(cfg, zs)
    IN  [roads |-> rs4, intersections |-> inter2,
         road_grid |-> _update_road_grid(cfg, rs4, grid)]

----------------------------------------------------------------------------
(* generator.py *)

\* Mutation of Building: 3 metres per floor
BuildingLowFloors(x, y, width, height, floors, zone_type) ==
    [x |-> x, y |-> y, width |-> width, height |-> height, floors |-> floors,
     zone_type |-> zone_type, building_height |-> floors * 30]

\* Building.__init__; building_height = floors * 3.5, in tenths
Building(x, y, width, height, floors, zone_type) ==
    [x |-> x, y |-> y, width |-> width, height |-> height, floors |-> floors,
     zone_type |-> zone_type, building_height |-> floors * 35]

\* _get_min_building_size
_get_min_building_size(zone_type) ==
    CASE zone_type = RESIDENTIAL -> <<8, 10>>
      [] zone_type = COMMERCIAL -> <<12, 15>>
      [] zone_type = BUSINESS -> <<20, 25>>
      [] zone_type = LEISURE -> <<10, 12>>
      [] zone_type = INDUSTRIAL -> <<25, 30>>
      [] zone_type = PARKS -> <<5, 5>>
      [] OTHER -> <<10, 10>>

\* _get_max_building_size
_get_max_building_size(zone_type) ==
    CASE zone_type = RESIDENTIAL -> <<15, 20>>
      [] zone_type = COMMERCIAL -> <<25, 30>>
      [] zone_type = BUSINESS -> <<40, 50>>
      [] zone_type = LEISURE -> <<20, 25>>
      [] zone_type = INDUSTRIAL -> <<50, 60>>
      [] zone_type = PARKS -> <<8, 8>>
      [] OTHER -> <<20, 20>>

\* _get_building_spacing
_get_building_spacing(zone_type) ==
    CASE zone_type = RESIDENTIAL -> 5
      [] zone_type = COMMERCIAL -> 3
      [] zone_type = BUSINESS -> 8
      [] zone_type = LEISURE -> 6
      [] zone_type = INDUSTRIAL -> 10
      [] zone_type = PARKS -> 20
      [] OTHER -> 5

\* min_distance_to_road of _can_place_building
MinDistanceToRoad == 5

\* _can_place_building, lines 162-165: no road cell in the size[0] x size[1]
\* rectangle at (x, y)
FootprintFree(cfg, grid, x, y, size) ==
    \A dx \in 0..(size[1] - 1) : \A dy \in 0..(size[2] - 1) :
        ~is_road(cfg, grid, x + dx, y + dy)

\* _can_place_building, lines 168-173: the distance loop
BufferFree(cfg, grid, x, y, size) ==
    \A dx \in (-MinDistanceToRoad)..(size[1] + MinDistanceToRoad - 1) :
        \A dy \in (-MinDistanceToRoad)..(size[2] + MinDistanceToRoad - 1) :
            ~(/\ Abs(dx) < MinDistanceToRoad
              /\ Abs(dy) < MinDistanceToRoad
              /\ is_road(cfg, grid, x + dx, y + dy))

\* _can_place_building
_can_place_building(cfg, grid, x, y, size) ==
    FootprintFree(cfg, grid, x, y, size) /\ BufferFree(cfg, grid, x, y, size)

\* random.randint(lo, hi) / np.random.randint(lo, hi + 1): the values drawn
\* here; the set is empty when lo > hi, where the call raises ValueError
RandInt(lo, hi) == {v \in lo..hi : v - lo <= DrawSpread \/ hi - v <= DrawSpread}

\* int(height // 3.5) for an integer height
FloorsOf(height) == (2 * height) \div 7

\* Mutation of _generate_building_floors: residential floors are not capped
\* at 8
_generate_building_floors_uncapped(cfg, zone_type) ==
    LET min_floors == Max(1, FloorsOf(cfg.min_building_height[zone_type]))
        max_floors == Max(min_floors, FloorsOf(cfg.max_building_height[zone_type]))
    IN  IF zone_type = BUSINESS
        THEN {k + min_floors : k \in (0..DrawSpread) \cup {max_floors + 1 - min_floors}}
        ELSE RandInt(min_floors, max_floors)

\* _generate_building_floors with numpy: the values it can return; empty when
\* the draw raises.  int(np.random.exponential(...)) is any integer >= 0,
\* drawn here as 0..DrawSpread and as one value past max_floors.
_generate_building_floors(cfg, zone_type) ==
    LET min_floors == Max(1, FloorsOf(cfg.min_building_height[zone_type]))
        max_floors == Max(min_floors, FloorsOf(cfg.max_building_height[zone_type]))
    IN  IF zone_type = BUSINESS
        THEN {k + min_floors : k \in (0..DrawSpread) \cup {max_floors + 1 - min_floors}}
        ELSE IF zone_type = RESIDENTIAL
        THEN RandInt(min_floors, Min(max_floors, 8))
        ELSE RandInt(min_floors, max_floors)

\* np.random.random() < zone.density, density in percent: the outcomes
ShouldPlace(density) == {b \in BOOLEAN : IF b THEN density > 0 ELSE density < 100}

\* Mutation of Candidates: the origins advance by the minimum footprint plus
\* the spacing
CandidatesByMinimum(zone) ==
    LET min_building_size == _get_min_building_size(zone.zone_type)
        building_spacing == _get_building_spacing(zone.zone_type)
        ys == Range(zone.y + building_spacing,
                    zone.y + zone.height - min_building_size[2],
                    min_building_size[2] + building_spacing)
        xs == Range(zone.x + building_spacing,
                    zone.x + zone.width - min_building_size[1],
                    min_building_size[1] + building_spacing)
    IN  Flatten([j \in 1..Len(ys) |-> [i \in 1..Len(xs) |-> <<xs[i], ys[j]>>]])

\* _generate_zone_buildings: the candidate origins the two loops visit
Candidates(zone) ==
    LET min_building_size == _get_min_building_size(zone.zone_type)
        max_building_size == _get_max_building_size(zone.zone_type)
        building_spacing == _get_building_spacing(zone.zone_type)
        ys == Range(zone.y + building_spacing,
                    zone.y + zone.height - min_building_size[2],
                    max_building_size[2] + building_spacing)
        xs == Range(zone.x + building_spacing,
                    zone.x + zone.width - min_building_size[1],
                    max_building_size[1] + building_spacing)
    IN  Flatten([j \in 1..Len(ys) |-> [i \in 1..Len(xs) |-> <<xs[i], ys[j]>>]])

\* Mutation of Drawn: the size drawn is not clipped to the zone
DrawnUnclipped(cfg, zone, x, y) ==
    LET min_building_size == _get_min_building_size(zone.zone_type)
        max_building_size == _get_max_building_size(zone.zone_type)
    IN  {Building(x, y, w, h, floors, zone.zone_type) :
            <<w, h, floors>> \in
                RandInt(min_building_size[1], max_building_size[1])
                \X RandInt(min_building_size[2], max_building_size[2])
                \X _generate_building_floors(cfg, zone.zone_type)}

\* _generate_zone_buildings, lines 95-116: the buildings one accepted
\* candidate can give; empty when _generate_building_floors raises
Drawn(cfg, zone, x, y) ==
    LET min_building_size == _get_min_building_size(zone.zone_type)
        max_building_size == _get_max_building_size(zone.zone_type)
    IN  {Building(x, y, Min(w, zone.x + zone.width - x), Min(h, zone.y + zone.height - y),
                  floors, zone.zone_type) :
            <<w, h, floors>> \in
                RandInt(min_building_size[1], max_building_size[1])
                \X RandInt(min_building_size[2], max_building_size[2])
                \X _generate_building_floors(cfg, zone.zone_type)}

\* _generate_zone_buildings from candidate i on: the runs possible, each the
\* buildings appended and whether the run ended in an exception
RECURSIVE ZoneRuns(_, _, _, _, _)
ZoneRuns(cfg, grid, zone, cands, i) ==
    IF i > Len(cands) THEN {[appended |-> <<>>, raised |-> FALSE]}
    ELSE LET x == cands[i][1]
             y == cands[i][2]
             rest == ZoneRuns(cfg, grid, zone, cands, i + 1)
         IN  IF ~_can_place_building(cfg, grid, x, y, _get_min_building_size(zone.zone_type))
             THEN rest
             ELSE IF Drawn(cfg, zone, x, y) = {}
             THEN {[appended |-> <<>>, raised |-> TRUE]}
             ELSE (IF FALSE \in ShouldPlace(zone.density) THEN rest ELSE {})
                  \cup
                  (IF TRUE \in ShouldPlace(zone.density)
                   THEN {[r EXCEPT !.appended = <<b>> \o @] :
                            <<b, r>> \in Drawn(cfg, zone, x, y) \X rest}
                   ELSE {})

\* _generate_zone_buildings
_generate_zone_buildings(cfg, grid, zone) ==
    IF zone.zone_type = PARKS THEN {[appended |-> <<>>, raised |-> FALSE]}
    ELSE ZoneRuns(cfg, grid, zone, Candidates(zone), 1)

\* CityConfig.get_zone_color, in tenths
get_zone_color(zone_type) ==
    CASE zone_type = RESIDENTIAL -> <<8, 8, 6>>
      [] zone_type = COMMERCIAL -> <<6, 6, 9>>
      [] zone_type = BUSINESS -> <<5, 5, 8>>
      [] zone_type = LEISURE -> <<9, 7, 6>>
      [] zone_type = PARKS -> <<4, 8, 4>>
      [] zone_type = INDUSTRIAL -> <<7, 7, 7>>
      [] OTHER -> <<5, 5, 5>>

\* ZoneManager.get_zones_by_type
get_zones_by_type(zs, zone_type) == SelectSeq(zs, LAMBDA z : z.zone_type = zone_type)

\* sum(...) over a sequence of integers
RECURSIVE Sum(_)
Sum(s) == IF s = <<>> THEN 0 ELSE Head(s) + Sum(Tail(s))

\* get_city_stats, lines 213-220: the entry of one zone type;
\* avg_building_height in 1/(10 * Scale) units
ZoneStats(zs, bs, zone_type) ==
    LET zones_of == get_zones_by_type(zs, zone_type)
        buildings_of == SelectSeq(bs, LAMBDA b : b.zone_type = zone_type)
    IN  [zones |-> Len(zones_of),
         buildings |-> Len(buildings_of),
         total_area |-> Sum([i \in 1..Len(zones_of) |-> zones_of[i].width * zones_of[i].height]),
         avg_building_height |->
            IF buildings_of # <<>>
            THEN (Sum([i \in 1..Len(buildings_of) |-> buildings_of[i].building_height]) * Scale)
                    \div Len(buildings_of)
            ELSE 0]

\* Mutation of get_city_stats: the road and intersection totals exchanged
get_city_stats_swapped(cfg, zs, rs, inter, bs) ==
    [total_zones |-> Len(zs),
     total_buildings |-> Len(bs),
     total_roads |-> Len(inter),
     total_intersections |-> Len(rs),
     city_size |-> <<cfg.width, cfg.height>>,
     zone_stats |-> [t \in ZoneType |-> ZoneStats(zs, bs, t)]]

\* get_city_stats on a generator whose generation is complete; city_size is
\* the pair the string is formatted from
get_city_stats(cfg, zs, rs, inter, bs) ==
    [total_zones |-> Len(zs),
     total_buildings |-> Len(bs),
     total_roads |-> Len(rs),
     total_intersections |-> Len(inter),
     city_size |-> <<cfg.width, cfg.height>>,
     zone_stats |-> [t \in ZoneType |-> ZoneStats(zs, bs, t)]]

\* Building.to_dict
to_dict(b) ==
    [x |-> b.x, y |-> b.y, width |-> b.width, height |-> b.height, floors |-> b.floors,
     building_height |-> b.building_height, zone_type |-> b.zone_type]

\* export_to_json, lines 236-273: city_data
CityData(cfg, zs, rs, inter, bs) ==
    [config |-> [width |-> cfg.width, height |-> cfg.height,
                 main_road_width |-> cfg.main_road_width,
                 secondary_road_width |-> cfg.secondary_road_width,
                 local_road_width |-> cfg.local_road_width],
     zones |-> [i \in 1..Len(zs) |->
                  [type |-> zs[i].zone_type, x |-> zs[i].x, y |-> zs[i].y,
                   width |-> zs[i].width, height |-> zs[i].height,
                   density |-> zs[i].density, color |-> get_zone_color(zs[i].zone_type)]],
     roads |-> [i \in 1..Len(rs) |->
                  [start |-> rs[i].start, end |-> rs[i].end, width |-> rs[i].width,
                   type |-> rs[i].road_type]],
     buildings |-> [i \in 1..Len(bs) |-> to_dict(bs[i])],
     intersections |-> [i \in 1..Len(inter) |->
                  [position |-> inter[i].position,
                   connected_roads |-> Len(inter[i].connected_roads)]]]

\* A JSON document as json.dump writes it: a number, a string, an array or an
\* object. A tuple and a list are both written as an array.
JNumber(n) == [t |-> "number", v |-> n]
JString(s) == [t |-> "string", v |-> s]
JArray(s) == [t |-> "array", v |-> s]
JObject(f) == [t |-> "object", v |-> f]

\* json.dump of a tuple of numbers (a point, a colour)
JNumbers(p) == JArray([i \in 1..Len(p) |-> JNumber(p[i])])

\* json.dump of one entry of each list of city_data
JZone(z) ==
    JObject([type |-> JString(z.type), x |-> JNumber(z.x), y |-> JNumber(z.y),
             width |-> JNumber(z.width), height |-> JNumber(z.height),
             density |-> JNumber(z.density), color |-> JNumbers(z.color)])
JRoad(r) ==
    JObject([start |-> JNumbers(r.start), end |-> JNumbers(r.end),
             width |-> JNumber(r.width), type |-> JString(r.type)])
JBuilding(b) ==
    JObject([x |-> JNumber(b.x), y |-> JNumber(b.y), width |-> JNumber(b.width),
             height |-> JNumber(b.height), floors |-> JNumber(b.floors),
             building_height |-> JNumber(b.building_height),
             zone_type |-> JString(b.zone_type)])
JIntersection(n) ==
    JObject([position |-> JNumbers(n.position),
             connected_roads |-> JNumber(n.connected_roads)])
JConfig(c) ==
    JObject([width |-> JNumber(c.width), height |-> JNumber(c.height),
             main_road_width |-> JNumber(c.main_road_width),
             secondary_road_width |-> JNumber(c.secondary_road_width),
             local_road_width |-> JNumber(c.local_road_width)])

\* Mutation of json_dump: the intersections section is not written
json_dump_without_intersections(city_data) ==
    JObject([config |-> JConfig(city_data.config),
             zones |-> JArray([i \in 1..Len(city_data.zones) |-> JZone(city_data.zones[i])]),
             roads |-> JArray([i \in 1..Len(city_data.roads) |-> JRoad(city_data.roads[i])]),
             buildings |-> JArray([i \in 1..Len(city_data.buildings) |->
                                      JBuilding(city_data.buildings[i])])])

\* export_to_json, line 277: json.dump(city_data, f), the document written
json_dump(city_data) ==
    JObject([config |-> JConfig(city_data.config),
             zones |-> JArray([i \in 1..Len(city_data.zones) |-> JZone(city_data.zones[i])]),
             roads |-> JArray([i \in 1..Len(city_data.roads) |-> JRoad(city_data.roads[i])]),
             buildings |-> JArray([i \in 1..Len(city_data.buildings) |->
                                      JBuilding(city_data.buildings[i])]),
             intersections |-> JArray([i \in 1..Len(city_data.intersections) |->
                                      JIntersection(city_data.intersections[i])])])

\* json.load of a document written by json.dump: an array is read as a list,
\* an object as a dict, a number and a string as themselves
RECURSIVE json_load(_)
json_load(j) ==
    CASE j.t = "array" -> [i \in 1..Len(j.v) |-> json_load(j.v[i])]
      [] j.t = "object" -> [k \in DOMAIN j.v |-> json_load(j.v[k])]
      [] OTHER -> j.v

\* export_to_obj, lines 295-321: the lines written for one building, base
\* being vertex_count; a "v" line is <<"v", x, height, z>> with the height in
\* tenths
BuildingLines(b, base) ==
    LET x == b.x
        y == b.y
        w == b.width
        h == b.height
        height == b.building_height
    IN  << <<"v", x, 0, y>>, <<"v", x + w, 0, y>>,
           <<"v", x + w, 0, y + h>>, <<"v", x, 0, y + h>>,
           <<"v", x, height, y>>, <<"v", x + w, height, y>>,
           <<"v", x + w, height, y + h>>, <<"v", x, height, y + h>>,
           <<"f", base, base + 1, base + 2, base + 3>>,
           <<"f", base + 4, base + 7, base + 6, base + 5>>,
           <<"f", base, base + 4, base + 5, base + 1>>,
           <<"f", base + 1, base + 5, base + 6, base + 2>>,
           <<"f", base + 2, base + 6, base + 7, base + 3>>,
           <<"f", base + 3, base + 7, base + 4, base>> >>

\* export_to_obj, lines 327-349: the lines written for one road of positive
\* length.  px and py are in 1/(20 * Scale) units, and so are the x and z of
\* the "rv" lines; their height 0.1 is 1 tenth.
RoadLines(road, base) ==
    LET x1 == road.start[1]
        y1 == road.start[2]
        x2 == road.end[1]
        y2 == road.end[2]
        length == Sqrt((x2 - x1) * (x2 - x1) + (y2 - y1) * (y2 - y1))
        dx == ((x2 - x1) * Scale * Scale) \div length
        dy == ((y2 - y1) * Scale * Scale) \div length
        px == (-dy) * road.width
        py == dx * road.width
        unit == 20 * Scale
    IN  << <<"rv", x1 * unit + px, 1, y1 * unit + py>>,
           <<"rv", x1 * unit - px, 1, y1 * unit - py>>,
           <<"rv", x2 * unit - px, 1, y2 * unit - py>>,
           <<"rv", x2 * unit + px, 1, y2 * unit + py>>,
           <<"f", base, base + 1, base + 2, base + 3>> >>

\* export_to_obj, lines 293-323: the loop over the buildings from i on
RECURSIVE ObjBuildings(_, _, _)
ObjBuildings(bs, i, vertex_count) ==
    IF i > Len(bs) THEN <<>>
    ELSE BuildingLines(bs[i], vertex_count) \o ObjBuildings(bs, i + 1, vertex_count + 8)

\* Mutation of ObjRoads: a road without length still advances vertex_count
RECURSIVE ObjRoadsCounting(_, _, _)
ObjRoadsCounting(rs, i, vertex_count) ==
    IF i > Len(rs) THEN <<>>
    ELSE IF HasLength(rs[i])
    THEN RoadLines(rs[i], vertex_count) \o ObjRoadsCounting(rs, i + 1, vertex_count + 4)
    ELSE ObjRoadsCounting(rs, i + 1, vertex_count + 4)

\* export_to_obj, lines 326-350: the loop over the roads from i on
RECURSIVE ObjRoads(_, _, _)
ObjRoads(rs, i, vertex_count) ==
    IF i > Len(rs) THEN <<>>
    ELSE IF HasLength(rs[i])
    THEN RoadLines(rs[i], vertex_count) \o ObjRoads(rs, i + 1, vertex_count + 4)
    ELSE ObjRoads(rs, i + 1, vertex_count)

\* Mutation of ObjFile: the vertex counter starts again at 1 for the roads
ObjFileRoadsRestart(rs, bs) ==
    << <<"#", "3D City Model">>, <<"#", "Generated by City-Road3d-Generator">> >>
    \o ObjBuildings(bs, 1, 1)
    \o ObjRoads(rs, 1, 1)

\* export_to_obj, lines 286-350: the content of the file written
ObjFile(rs, bs) ==
    << <<"#", "3D City Model">>, <<"#", "Generated by City-Road3d-Generator">> >>
    \o ObjBuildings(bs, 1, 1)
    \o ObjRoads(rs, 1, 1 + 8 * Len(bs))

----------------------------------------------------------------------------
(* The generators considered *)

\* one residential zone; main roads on column 0 and row 0, secondary roads on
\* column 16 and row 16, every road one cell wide
ResidentialTown ==
    CityConfig(17, 17, 10, 10, 10, 200, 16, << <<RESIDENTIAL, 100>> >>,
               DefaultZoneDensities, DefaultMinBuildingHeight, DefaultMaxBuildingHeight)

\* one business zone; main roads three cells wide every 8 cells
BusinessBlock ==
    CityConfig(12, 10, 20, 10, 10, 8, 5, << <<BUSINESS, 100>> >>,
               DefaultZoneDensities, DefaultMinBuildingHeight, DefaultMaxBuildingHeight)

\* a parks seed and a residential seed; residential buildings of 32 to 40
\* metres, that is 9 to 11 floors
TallTown ==
    CityConfig(26, 16, 10, 10, 10, 200, 100, << <<PARKS, 50>>, <<RESIDENTIAL, 50>> >>,
               DefaultZoneDensities,
               [DefaultMinBuildingHeight EXCEPT ![RESIDENTIAL] = 32],
               [DefaultMaxBuildingHeight EXCEPT ![RESIDENTIAL] = 40])

Configs == {ResidentialTown, BusinessBlock, TallTown}

----------------------------------------------------------------------------
(* The state machine *)

\* what an operation left behind: whether it raised, the value it returned
\* and the file it wrote, each as a sequence of at most one element
Outcome(op, raised, ret, file) == [op |-> op, raised |-> raised, ret |-> ret, file |-> file]

\* CityGenerator.__init__ with ZoneManager.__init__ and RoadNetwork.__init__
Init ==
    /\ config \in Configs
    /\ zones = <<>>
    /\ zone_grid = EmptyZoneGrid(config)
    /\ zone_type_map = <<>>
    /\ roads = <<>>
    /\ intersections = <<>>
    /\ road_grid = {}
    /\ buildings = <<>>
    /\ generation_complete = FALSE
    /\ pc = "idle"
    /\ bz = 0
    /\ last = Outcome("__init__", FALSE, <<>>, <<>>)

\* generate_city, line 60: ZoneManager.generate_zones
GenerateZones ==
    /\ pc = "idle"
    /\ Len(zones) < MaxZones
    /\ \E draw \in [1..Len(SeedTypes(config, config.zone_distribution)) -> SeedDraws(config)] :
        LET seeds == _generate_zone_seeds(config, draw)
            grid == AssignZoneGrid(config, seeds)
            type_map == [i \in 1..Len(seeds) |-> seeds[i].zone_type]
        IN  /\ zone_type_map' = type_map
            /\ zone_grid' = grid
            /\ zones' = zones \o _create_zone_objects(config, grid, type_map, seeds)
    /\ pc' = "roads"
    /\ last' = Outcome("generate_city", FALSE, <<>>, <<>>)
    /\ UNCHANGED <<config, roads, intersections, road_grid, buildings,
                   generation_complete, bz>>

\* generate_city, line 63: RoadNetwork.generate_road_network
GenerateRoadNetwork ==
    /\ pc = "roads"
    /\ LET net == generate_road_network(config, zones, roads, intersections, road_grid)
       IN  /\ roads' = net.roads
           /\ intersections' = net.intersections
           /\ road_grid' = net.road_grid
    /\ pc' = "buildings"
    /\ bz' = 1
    /\ UNCHANGED <<config, zones, zone_grid, zone_type_map, buildings,
                   generation_complete, last>>

\* Mutation of GenerateZoneBuildings: the origin of a building placed is
\* marked in the occupancy grid
GenerateZoneBuildingsMarkingGrid ==
    /\ pc = "buildings"
    /\ bz <= Len(zones)
    /\ \E run \in _generate_zone_buildings(config, road_grid, zones[bz]) :
        /\ buildings' = buildings \o run.appended
        /\ zones' = [zones EXCEPT ![bz].buildings =
                        @ \o [i \in 1..Len(run.appended) |-> Len(buildings) + i]]
        /\ road_grid' = road_grid \cup
                {<<run.appended[i].x, run.appended[i].y>> : i \in 1..Len(run.appended)}
        /\ IF run.raised
           THEN /\ pc' = "idle"
                /\ bz' = 0
                /\ last' = Outcome("generate_city", TRUE, <<>>, <<>>)
           ELSE /\ pc' = pc
                /\ bz' = bz + 1
                /\ last' = last
    /\ UNCHANGED <<config, zone_grid, zone_type_map, roads, intersections,
                   generation_complete>>

\* Mutation of GenerateZoneBuildings: a building is appended to the global
\* list only
GenerateZoneBuildingsGlobalOnly ==
    /\ pc = "buildings"
    /\ bz <= Len(zones)
    /\ \E run \in _generate_zone_buildings(config, road_grid, zones[bz]) :
        /\ buildings' = buildings \o run.appended
        /\ zones' = zones
        /\ IF run.raised
           THEN /\ pc' = "idle"
                /\ bz' = 0
                /\ last' = Outcome("generate_city", TRUE, <<>>, <<>>)
           ELSE /\ pc' = pc
                /\ bz' = bz + 1
                /\ last' = last
    /\ UNCHANGED <<config, zone_grid, zone_type_map, roads, intersections, road_grid,
                   generation_complete>>

\* generate_city, line 66: one turn of the loop of _generate_buildings, the
\* call _generate_zone_buildings(zone); an exception leaves generate_city
GenerateZoneBuildings ==
    /\ pc = "buildings"
    /\ bz <= Len(zones)
    /\ \E run \in _generate_zone_buildings(config, road_grid, zones[bz]) :
        /\ buildings' = buildings \o run.appended
        /\ zones' = [zones EXCEPT ![bz].buildings =
                        @ \o [i \in 1..Len(run.appended) |-> Len(buildings) + i]]
        /\ IF run.raised
           THEN /\ pc' = "idle"
                /\ bz' = 0
                /\ last' = Outcome("generate_city", TRUE, <<>>, <<>>)
           ELSE /\ pc' = pc
                /\ bz' = bz + 1
                /\ last' = last
    /\ UNCHANGED <<config, zone_grid, zone_type_map, roads, intersections, road_grid,
                   generation_complete>>

\* generate_city, line 68, after the loop of _generate_buildings has ended
CompleteGeneration ==
    /\ pc = "buildings"
    /\ bz > Len(zones)
    /\ generation_complete' = TRUE
    /\ pc' = "idle"
    /\ bz' = 0
    /\ UNCHANGED <<config, zones, zone_grid, zone_type_map, roads, intersections,
                   road_grid, buildings, last>>

\* get_city_stats
GetCityStats ==
    /\ pc = "idle"
    /\ last' = IF ~generation_complete
               THEN Outcome("get_city_stats", FALSE,
                            <<[error |-> "City generation not complete"]>>, <<>>)
               ELSE Outcome("get_city_stats", FALSE,
                            <<get_city_stats(config, zones, roads, intersections, buildings)>>,
                            <<>>)
    /\ UNCHANGED <<config, zones, zone_grid, zone_type_map, roads, intersections,
                   road_grid, buildings, generation_complete, pc, bz>>

\* export_to_json(filename); json.dump writes city_data when a filename is given
ExportToJson ==
    /\ pc = "idle"
    /\ \E filename \in {"", "city.json"} :
        last' = IF ~generation_complete
                THEN Outcome("export_to_json", TRUE, <<>>, <<>>)
                ELSE LET city_data == CityData(config, zones, roads, intersections, buildings)
                     IN  Outcome("export_to_json", FALSE, <<city_data>>,
                                 IF filename # "" THEN <<json_dump(city_data)>> ELSE <<>>)
    /\ UNCHANGED <<config, zones, zone_grid, zone_type_map, roads, intersections,
                   road_grid, buildings, generation_complete, pc, bz>>

\* Mutation of ExportToObj: the file is written without the readiness test
ExportToObjUnchecked ==
    /\ pc = "idle"
    /\ last' = Outcome("export_to_obj", FALSE, <<>>, <<ObjFile(roads, buildings)>>)
    /\ UNCHANGED <<config, zones, zone_grid, zone_type_map, roads, intersections,
                   road_grid, buildings, generation_complete, pc, bz>>

\* export_to_obj(filename); it returns None
ExportToObj ==
    /\ pc = "idle"
    /\ last' = IF ~generation_complete
               THEN Outcome("export_to_obj", TRUE, <<>>, <<>>)
               ELSE Outcome("export_to_obj", FALSE, <<>>, <<ObjFile(roads, buildings)>>)
    /\ UNCHANGED <<config, zones, zone_grid, zone_type_map, roads, intersections,
                   road_grid, buildings, generation_complete, pc, bz>>

Next ==
    \/ GenerateZones
    \/ GenerateRoadNetwork
    \/ GenerateZoneBuildings
    \/ CompleteGeneration
    \/ GetCityStats
    \/ ExportToJson
    \/ ExportToObj

Spec == Init /\ [][Next]_vars

\* ---------------------------------------------------------------------------
\* A RoadNetwork on a wide plane, its methods called one at a time.  The
\* plane is too large for generate_zones to be enumerated, so the zone list of
\* the zone manager is drawn from rectangles of the plane.

\* a 170 x 24 plane with the given grid sizes
WidePlane(mgs, sgs) ==
    CityConfig(170, 24, 20, 10, 10, mgs, sgs, << <<RESIDENTIAL, 100>> >>,
               DefaultZoneDensities, DefaultMinBuildingHeight, DefaultMaxBuildingHeight)

RoadConfigs == {WidePlane(60, 20), WidePlane(40, 30), WidePlane(20, 30), WidePlane(20, 10)}

\* zones whose centres are (2,1), (152,1), (151,18), (151,19) and (2,1) again
ZonePool(cfg) ==
    LET d == cfg.zone_densities
    IN  {Zone(RESIDENTIAL, 0, 0, 4, 2, d[RESIDENTIAL]),
         Zone(COMMERCIAL, 150, 0, 4, 2, d[COMMERCIAL]),
         Zone(LEISURE, 149, 17, 4, 2, d[LEISURE]),
         Zone(INDUSTRIAL, 149, 18, 4, 2, d[INDUSTRIAL]),
         Zone(BUSINESS, 0, 0, 5, 3, d[BUSINESS])}

\* the zone lists of at most MaxZones zones
ZoneLists(cfg) == UNION {[1..n -> ZonePool(cfg)] : n \in 0..MaxZones}

RoadInit ==
    /\ config \in RoadConfigs
    /\ zones \in ZoneLists(config)
    /\ zone_grid = EmptyZoneGrid(config)
    /\ zone_type_map = <<>>
    /\ roads = <<>>
    /\ intersections = <<>>
    /\ road_grid = {}
    /\ buildings = <<>>
    /\ generation_complete = FALSE
    /\ pc = "idle"
    /\ bz = 0
    /\ last = Outcome("__init__", FALSE, <<>>, <<>>)

\* RoadNetwork._generate_secondary_roads on the new network
GenerateSecondaryRoads ==
    /\ last.op = "__init__"
    /\ roads' = roads \o _generate_secondary_roads(config)
    /\ intersections' = AddIntersections(intersections, roads', Len(roads) + 1, Len(roads'))
    /\ last' = Outcome("_generate_secondary_roads", FALSE, <<>>, <<>>)
    /\ UNCHANGED <<config, zones, zone_grid, zone_type_map, road_grid, buildings,
                   generation_complete, pc, bz>>

\* RoadNetwork._connect_zones on the new network
ConnectZones ==
    /\ last.op = "__init__"
    /\ roads' = roads \o _connect_zones(config, zones)
    /\ last' = Outcome("_connect_zones", FALSE, <<>>, <<>>)
    /\ UNCHANGED <<config, zones, zone_grid, zone_type_map, intersections, road_grid,
                   buildings, generation_complete, pc, bz>>

RoadNext == GenerateSecondaryRoads \/ ConnectZones

RoadSpec == RoadInit /\ [][RoadNext]_vars

\* ---------------------------------------------------------------------------
\* A ZoneManager whose zone grid holds any assignment of two seed ids to the
\* cells of a 3 x 3 plane, _find_connected_cells and _create_zone_objects
\* called on it.

SmallPlane ==
    CityConfig(3, 3, 10, 10, 10, 200, 100, << <<PARKS, 50>>, <<RESIDENTIAL, 50>> >>,
               DefaultZoneDensities, DefaultMinBuildingHeight, DefaultMaxBuildingHeight)

\* the grids generate_zones can leave: every cell carries the id of a seed
SeedGrids(cfg, n) == [1..cfg.height -> [1..cfg.width -> 1..n]]

FillInit ==
    /\ config = SmallPlane
    /\ zones = <<>>
    /\ zone_type_map = SeedTypes(config, config.zone_distribution)
    /\ zone_grid \in SeedGrids(config, Len(zone_type_map))
    /\ roads = <<>>
    /\ intersections = <<>>
    /\ road_grid = {}
    /\ buildings = <<>>
    /\ generation_complete = FALSE
    /\ pc = "idle"
    /\ bz = 0
    /\ last = Outcome("generate_zones", FALSE, <<>>, <<>>)

\* ZoneManager._find_connected_cells(zone_id)
FindConnectedCells ==
    /\ last.op = "generate_zones"
    /\ \E zone_id \in 1..Len(zone_type_map) :
        last' = Outcome("_find_connected_cells", FALSE,
                        <<[zone_id |-> zone_id,
                           cells |-> _find_connected_cells_list(zone_grid, zone_id)]>>, <<>>)
    /\ UNCHANGED <<config, zones, zone_grid, zone_type_map, roads, intersections,
                   road_grid, buildings, generation_complete, pc, bz>>

\* ZoneManager._create_zone_objects(seeds)
CreateZoneObjects ==
    /\ last.op = "generate_zones"
    /\ zones' = zones \o CreateFrom(config, zone_grid, zone_type_map, Len(zone_type_map), 1)
    /\ last' = Outcome("_create_zone_objects", FALSE, <<>>, <<>>)
    /\ UNCHANGED <<config, zone_grid, zone_type_map, roads, intersections, road_grid,
                   buildings, generation_complete, pc, bz>>

FillNext == FindConnectedCells \/ CreateZoneObjects

FillSpec == FillInit /\ [][FillNext]_vars

\* ---------------------------------------------------------------------------
\* A RoadNetwork on the 12 x 10 plane, _draw_line_on_grid called once on it
\* with end points inside and outside the plane.

LineEnds == (-2..MaxCoord) \X (-2..MaxCoord)

LineInit ==
    /\ config = BusinessBlock
    /\ zones = <<>>
    /\ zone_grid = EmptyZoneGrid(config)
    /\ zone_type_map = <<>>
    /\ roads = <<>>
    /\ intersections = <<>>
    /\ road_grid = {}
    /\ buildings = <<>>
    /\ generation_complete = FALSE
    /\ pc = "idle"
    /\ bz = 0
    /\ last = Outcome("__init__", FALSE, <<>>, <<>>)

\* RoadNetwork._draw_line_on_grid(start, end, width); ret holds the points
\* handed to _mark_road_point, in order
DrawLineOnGrid ==
    /\ last.op = "__init__"
    /\ \E start \in LineEnds, end \in LineEnds :
       \E width \in {config.main_road_width, config.local_road_width} :
        /\ road_grid' = road_grid \cup _draw_line_on_grid(config, start, end, width)
        /\ last' = Outcome("_draw_line_on_grid", FALSE,
                           <<[start |-> start, end |-> end, width |-> width,
                              points |-> LinePoints(start, end)]>>, <<>>)
    /\ UNCHANGED <<config, zones, zone_grid, zone_type_map, roads, intersections,
                   buildings, generation_complete, pc, bz>>

LineNext == DrawLineOnGrid

LineSpec == LineInit /\ [][LineNext]_vars

\* ---------------------------------------------------------------------------
\* One generate_city call on planes of a single zone type, wide enough for a
\* zone to hold buildings, and _generate_building_floors called on the new
\* generator.

\* a plane of one zone type; residential heights may reach 40
SingleTypePlane(w, h, zone_type) ==
    CityConfig(w, h, 10, 10, 10, 200, 100, << <<zone_type, 100>> >>,
               DefaultZoneDensities, DefaultMinBuildingHeight,
               [DefaultMaxBuildingHeight EXCEPT ![RESIDENTIAL] = 40])

BuildConfigs ==
    {SingleTypePlane(34, 16, RESIDENTIAL), SingleTypePlane(43, 19, LEISURE),
     SingleTypePlane(36, 41, INDUSTRIAL), SingleTypePlane(29, 34, BUSINESS)}

BuildInit ==
    /\ config \in BuildConfigs
    /\ zones = <<>>
    /\ zone_grid = EmptyZoneGrid(config)
    /\ zone_type_map = <<>>
    /\ roads = <<>>
    /\ intersections = <<>>
    /\ road_grid = {}
    /\ buildings = <<>>
    /\ generation_complete = FALSE
    /\ pc = "idle"
    /\ bz = 0
    /\ last = Outcome("__init__", FALSE, <<>>, <<>>)

\* the first generate_city call of the generator
FirstGenerateZones == zones = <<>> /\ GenerateZones

\* CityGenerator._generate_building_floors(zone_type) on the new generator
GenerateBuildingFloors ==
    /\ pc = "idle"
    /\ last.op = "__init__"
    /\ \E zone_type \in ZoneType :
        LET drawn == _generate_building_floors(config, zone_type)
        IN  IF drawn = {}
            THEN last' = Outcome("_generate_building_floors", TRUE, <<>>, <<>>)
            ELSE \E floors \in drawn :
                    last' = Outcome("_generate_building_floors", FALSE,
                                    <<[zone_type |-> zone_type, floors |-> floors]>>, <<>>)
    /\ UNCHANGED <<config, zones, zone_grid, zone_type_map, roads, intersections,
                   road_grid, buildings, generation_complete, pc, bz>>

BuildNext ==
    \/ FirstGenerateZones
    \/ GenerateRoadNetwork
    \/ GenerateZoneBuildings
    \/ CompleteGeneration
    \/ GenerateBuildingFloors

BuildSpec == BuildInit /\ [][BuildNext]_vars

----------------------------------------------------------------------------
(* Claims *)

ExportOps == {"export_to_json", "export_to_obj"}

\* the cells of the w x h rectangle whose origin is (x, y)
Rect(x, y, w, h) == (x..(x + w - 1)) \X (y..(y + h - 1))

\* the minimum footprint of a building: the rectangle _can_place_building
\* was asked about
MinFootprint(b) ==
    Rect(b.x, b.y, _get_min_building_size(b.zone_type)[1],
         _get_min_building_size(b.zone_type)[2])

\* C1: an export on a generator on which no generate_city call has completed
\* raises, returns no data, writes no file and leaves the generator's state
\* as it was.
C1_ExportBeforeGenerationRaises ==
    [][(/\ pc = "idle" /\ pc' = "idle"
        /\ ~generation_complete
        /\ last' # last
        /\ last'.op \in ExportOps)
       => (/\ last'.raised
           /\ last'.ret = <<>>
           /\ last'.file = <<>>
           /\ UNCHANGED <<config, zones, zone_grid, zone_type_map, roads, intersections,
                          road_grid, buildings, generation_complete>>)]_vars

\* an export has been refused on a generator that holds the zones and roads
\* of a generate_city call that raised
C1_Witness ==
    /\ ~generation_complete
    /\ last.op \in ExportOps
    /\ last.raised
    /\ zones # <<>>
    /\ roads # <<>>

\* C2: when a generate_city call has raised, generation is not reported
\* complete.
C2_RaisedCallNotReportedComplete ==
    (pc = "idle" /\ last.op = "generate_city" /\ last.raised) => ~generation_complete

\* C3: once generate_city has returned, no cell of the minimum footprint of a
\* building is a road cell of the occupancy grid.
C3_MinFootprintOffRoads ==
    pc = "idle" =>
    \A i \in 1..Len(buildings) :
        \A c \in MinFootprint(buildings[i]) : ~is_road(config, road_grid, c[1], c[2])

\* C4: no cell of the footprint a building was given (its drawn and clipped
\* width and height) is a road cell.
C4_ActualFootprintOffRoads ==
    \A i \in 1..Len(buildings) :
        \A c \in Rect(buildings[i].x, buildings[i].y, buildings[i].width, buildings[i].height) :
            ~is_road(config, road_grid, c[1], c[2])

\* C5: no placed building has a road cell within the band of
\* MinDistanceToRoad cells around its minimum footprint.
C5_BufferBandOffRoads ==
    \A i \in 1..Len(buildings) :
        LET b == buildings[i]
            size == _get_min_building_size(b.zone_type)
        IN  \A c \in Rect(b.x - MinDistanceToRoad, b.y - MinDistanceToRoad,
                          size[1] + 2 * MinDistanceToRoad, size[2] + 2 * MinDistanceToRoad) :
                ~is_road(config, road_grid, c[1], c[2])

\* a point of the city plane
InPlane(p) == 0 <= p[1] /\ p[1] < config.width /\ 0 <= p[2] /\ p[2] < config.height

\* C6: both end points of every road lie inside the city plane.
C6_RoadEndsInPlane ==
    \A i \in 1..Len(roads) : InPlane(roads[i].start) /\ InPlane(roads[i].end)

\* C7: the bounding box of every zone lies inside the city plane and is at
\* least one cell wide and one cell high.
C7_ZoneBoxInPlane ==
    \A i \in 1..Len(zones) :
        /\ zones[i].x >= 0 /\ zones[i].y >= 0
        /\ zones[i].width >= 1 /\ zones[i].height >= 1
        /\ zones[i].x + zones[i].width <= config.width
        /\ zones[i].y + zones[i].height <= config.height

\* a zone whose box is strictly smaller than the plane and does not start at
\* the origin
C7_Witness ==
    \E i \in 1..Len(zones) :
        /\ zones[i].x > 0 /\ zones[i].y > 0
        /\ zones[i].x + zones[i].width = config.width
        /\ zones[i].y + zones[i].height = config.height

\* C8 as stated: no point of the plane is contained, per contains_point, in
\* two zones.
C8_ZoneBoxesDisjoint ==
    \A i \in 1..Len(zones) : \A j \in (i + 1)..Len(zones) :
        \A p \in Rect(0, 0, config.width, config.height) :
            ~(contains_point(zones[i], p[1], p[2]) /\ contains_point(zones[j], p[1], p[2]))

\* the cell sets the zones of the last generate_zones were made from, by seed
Regions == [i \in 1..Len(zone_type_map) |-> _find_connected_cells(zone_grid, i)] \o <<>>

\* C8, amended: when generate_zones has returned, the cell sets its zones were
\* made from are pairwise disjoint, and each lies inside the bounding box of a
\* zone of its seed's type.
C8_ZoneRegionsDisjoint ==
    pc = "roads" =>
        LET regions == Regions
        IN  /\ \A i \in 1..Len(regions) : \A j \in (i + 1)..Len(regions) :
                    regions[i] \cap regions[j] = {}
            /\ \A i \in 1..Len(regions) :
                    \/ regions[i] = {}
                    \/ \E k \in 1..Len(zones) :
                            /\ zones[k].zone_type = zone_type_map[i]
                            /\ \A c \in regions[i] : contains_point(zones[k], c[1], c[2])

\* one generate_zones call has made two zones whose boxes share a cell
C8_Witness ==
    /\ Len(zones) = 2
    /\ Len(zone_type_map) = 2
    /\ pc = "roads"
    /\ Regions[1] # {} /\ Regions[2] # {}
    /\ \E p \in Rect(0, 0, config.width, config.height) :
            contains_point(zones[1], p[1], p[2]) /\ contains_point(zones[2], p[1], p[2])

\* the points is_road is asked about: the plane and a margin around it
Probes == Rect(-2, -2, config.width + 4, config.height + 4)

\* C9: is_road is false at every point outside the plane, negative
\* coordinates included, and is the grid's value at every point inside.
C9_IsRoadBounds ==
    \A p \in Probes :
        is_road(config, road_grid, p[1], p[2]) = (InPlane(p) /\ p \in road_grid)

\* roads reach the four sides of the plane, and is_road is false just outside
C9_Witness ==
    /\ <<0, 0>> \in road_grid
    /\ <<config.width - 1, config.height - 1>> \in road_grid
    /\ ~is_road(config, road_grid, -1, 0)
    /\ ~is_road(config, road_grid, config.width, config.height - 1)

\* C10: the totals get_city_stats returns are the lengths of the zone, road,
\* intersection and building lists, and its per-type zone and building counts
\* add up to the totals.
C10_StatsTotals ==
    (last.op = "get_city_stats" /\ generation_complete) =>
        LET stats == last.ret[1]
        IN  /\ stats.total_zones = Len(zones)
            /\ stats.total_buildings = Len(buildings)
            /\ stats.total_roads = Len(roads)
            /\ stats.total_intersections = Len(intersections)
            /\ Sum([k \in 1..Len(ZoneTypeOrder) |->
                      stats.zone_stats[ZoneTypeOrder[k]].zones]) = stats.total_zones
            /\ Sum([k \in 1..Len(ZoneTypeOrder) |->
                      stats.zone_stats[ZoneTypeOrder[k]].buildings]) = stats.total_buildings

\* statistics were taken after a second completed generate_city, with a
\* building in the city
C10_Witness ==
    /\ last.op = "get_city_stats"
    /\ generation_complete
    /\ Len(zones) >= 2
    /\ Len(buildings) >= 1
    /\ Len(roads) # Len(intersections)

\* C11: a completed generation has at least one zone and at least one road.
C11_CompletedCityHasZoneAndRoad ==
    generation_complete => (Len(zones) >= 1 /\ Len(roads) >= 1)

\* a generation has completed without a single building
C11_Witness ==
    /\ generation_complete
    /\ pc = "idle"
    /\ Len(zones) >= 1
    /\ Len(roads) >= 1
    /\ buildings = <<>>

\* the buildings section of the data export_to_json last returned, if any
ExportedBuildings ==
    IF last.op = "export_to_json" /\ ~last.raised THEN last.ret[1].buildings ELSE <<>>

\* C12: the building_height of every building is its floor count times 3.5
\* (35 tenths), in the building list and in the exported data, and every
\* building has at least one floor.
C12_BuildingHeightFromFloors ==
    /\ \A i \in 1..Len(buildings) :
            /\ buildings[i].floors >= 1
            /\ buildings[i].building_height = buildings[i].floors * 35
    /\ \A i \in 1..Len(ExportedBuildings) :
            /\ ExportedBuildings[i].floors = buildings[i].floors
            /\ ExportedBuildings[i].building_height = ExportedBuildings[i].floors * 35

\* a building of several floors has been exported
C12_Witness ==
    /\ ExportedBuildings # <<>>
    /\ ExportedBuildings[1].floors >= 2

\* the entries of city_data a zone, a road, a building and an intersection
\* must have, field by field
ZoneEntry(z) ==
    [type |-> z.zone_type, x |-> z.x, y |-> z.y, width |-> z.width,
     height |-> z.height, density |-> z.density, color |-> get_zone_color(z.zone_type)]
RoadEntry(r) == [start |-> r.start, end |-> r.end, width |-> r.width, type |-> r.road_type]
BuildingEntry(b) ==
    [x |-> b.x, y |-> b.y, width |-> b.width, height |-> b.height, floors |-> b.floors,
     building_height |-> b.building_height, zone_type |-> b.zone_type]
IntersectionEntry(n) ==
    [position |-> n.position, connected_roads |-> Len(n.connected_roads)]

ObjLines ==
    IF last.op = "export_to_obj" /\ ~last.raised
    THEN SubSeq(last.file[1], 3, Len(last.file[1]))
    ELSE <<>>

\* a line of the file is a vertex line, a face line
IsVertex(line) == line[1] \in {"v", "rv"}
IsFace(line) == line[1] = "f"

\* the vertex indices a face line references
FaceIndices(line) == {line[k] : k \in 2..Len(line)}

\* the number of lines among the first n of f that satisfy Test
CountLines(f, n, Test(_)) == Len(SelectSeq(SubSeq(f, 1, n), Test))

\* C14: export_to_obj writes the buildings before the roads, 8 vertex lines
\* then 6 face lines per building and 4 vertex lines then 1 face line per road
\* whose start and end differ; every face references the vertices of its own
\* object, and its indices are at least 1 and at most the number of vertex
\* lines written before it.
C14_ObjBlocks ==
    (last.op = "export_to_obj" /\ ~last.raised) =>
        LET f == ObjLines
            nb == Len(buildings)
            drawn == SelectSeq(roads, LAMBDA r : r.start # r.end)
            nr == Len(drawn)
        IN  /\ Len(f) = 14 * nb + 5 * nr
            /\ CountLines(f, Len(f), IsVertex) = 8 * nb + 4 * nr
            /\ CountLines(f, Len(f), IsFace) = 6 * nb + nr
            /\ \A k \in 1..nb :
                /\ \A j \in 1..8 : f[14 * (k - 1) + j][1] = "v"
                /\ \A j \in 9..14 :
                    /\ IsFace(f[14 * (k - 1) + j])
                    /\ FaceIndices(f[14 * (k - 1) + j]) \subseteq (8 * (k - 1) + 1)..(8 * k)
            /\ \A m \in 1..nr :
                /\ \A j \in 1..4 : f[14 * nb + 5 * (m - 1) + j][1] = "rv"
                /\ IsFace(f[14 * nb + 5 * m])
                /\ FaceIndices(f[14 * nb + 5 * m])
                       \subseteq (8 * nb + 4 * (m - 1) + 1)..(8 * nb + 4 * m)
            /\ \A p \in 1..Len(f) :
                IsFace(f[p]) =>
                    \A v \in FaceIndices(f[p]) :
                        v >= 1 /\ v <= CountLines(f, p, IsVertex)

\* a file with buildings and roads has been written
C14_Witness ==
    /\ ObjLines # <<>>
    /\ buildings # <<>>
    /\ \E i \in 1..Len(roads) : roads[i].start # roads[i].end

\* C15: a road whose start and end coincide is left out of the file
\* export_to_obj writes: the call does not raise, and the file is the one
\* written for the road list without these roads, so that the roads after
\* such a road keep the vertex indices they would have without it.
C15_ZeroLengthRoadSkipped ==
    (last.op = "export_to_obj" /\ generation_complete) =>
        /\ ~last.raised
        /\ last.file = <<ObjFile(SelectSeq(roads, LAMBDA r : r.start # r.end), buildings)>>

\* a file has been written for a road list in which a road without length
\* comes before a road with length
C15_Witness ==
    /\ last.op = "export_to_obj"
    /\ ~last.raised
    /\ \E i \in 1..Len(roads) : \E j \in (i + 1)..Len(roads) :
            /\ roads[i].start = roads[i].end
            /\ roads[j].start # roads[j].end

\* the pairs of positions of the zone list, and those whose centres are less
\* than 150 apart (the squares compared exactly)
ZonePairs == {p \in (1..Len(zones)) \X (1..Len(zones)) : p[1] < p[2]}
Near(p) ==
    LET c1 == ZoneCenter(zones[p[1]])
        c2 == ZoneCenter(zones[p[2]])
    IN  (c1[1] - c2[1]) * (c1[1] - c2[1]) + (c1[2] - c2[2]) * (c1[2] - c2[2])
            < ConnectDistance * ConnectDistance
Connector(p) ==
    [start |-> ZoneCenter(zones[p[1]]), end |-> ZoneCenter(zones[p[2]]),
     width |-> config.local_road_width, road_type |-> "local"]

RoadsAt(point) ==
    UNION {{intersections[k].connected_roads[n] :
                n \in 1..Len(intersections[k].connected_roads)} :
           k \in {k \in 1..Len(intersections) : intersections[k].position = point}}

\* C17: for every road of the road list, of any category, both its start and
\* its end are keys of the intersection map and the road is in the list of
\* each of them; conversely every road in the list of an intersection starts
\* or ends at that intersection.
C17_EveryRoadIndexed ==
    /\ \A i \in 1..Len(roads) :
            /\ i \in RoadsAt(roads[i].start)
            /\ i \in RoadsAt(roads[i].end)
    /\ \A k \in 1..Len(intersections) :
            \A i \in RoadsAt(intersections[k].position) :
                intersections[k].position \in {roads[i].start, roads[i].end}

\* the number of roads of a sequence equal to a given road
Copies(rs, road) == Cardinality({i \in 1..Len(rs) : rs[i] = road})

\* the line a full-height or full-width road lies on: <<"x", x>> or <<"y", y>>
GridLine(road) ==
    IF road.start[1] = road.end[1] THEN <<"x", road.start[1]>> ELSE <<"y", road.start[2]>>

\* C18: the secondary roads are exactly one full-height vertical road for
\* each x that is a positive multiple of secondary_grid_size below the width
\* and not a multiple of main_grid_size, and one full-width horizontal road
\* for each such y below the height; none lies on the line of a main road.
C18_SecondaryRoadsOffMainGrid ==
    last.op = "_generate_secondary_roads" =>
        LET sgs == config.secondary_grid_size
            mgs == config.main_grid_size
            xs == {x \in 1..(config.width - 1) : x % sgs = 0 /\ x % mgs # 0}
            ys == {y \in 1..(config.height - 1) : y % sgs = 0 /\ y % mgs # 0}
            Vertical(x) == [start |-> <<x, 0>>, end |-> <<x, config.height - 1>>,
                            width |-> config.secondary_road_width,
                            road_type |-> "secondary"]
            Horizontal(y) == [start |-> <<0, y>>, end |-> <<config.width - 1, y>>,
                              width |-> config.secondary_road_width,
                              road_type |-> "secondary"]
            main == _generate_main_roads(config)
        IN  /\ Len(roads) = Cardinality(xs) + Cardinality(ys)
            /\ \A x \in xs : Copies(roads, Vertical(x)) = 1
            /\ \A y \in ys : Copies(roads, Horizontal(y)) = 1
            /\ \A i \in 1..Len(roads) : \A m \in 1..Len(main) :
                    GridLine(roads[i]) # GridLine(main[m])

\* secondary roads have been generated where a multiple of the secondary grid
\* size is on the main grid, in both directions
C18_Witness ==
    /\ last.op = "_generate_secondary_roads"
    /\ roads # <<>>
    /\ \E x \in 1..(config.width - 1) :
            x % config.secondary_grid_size = 0 /\ x % config.main_grid_size = 0
    /\ \E y \in 1..(config.height - 1) :
            y % config.secondary_grid_size = 0 /\ y % config.main_grid_size = 0

\* the places <<zone, position in its list>> at which the building at
\* position i of the global list is held
Holders(i) ==
    {p \in UNION {{<<k, n>> : n \in 1..Len(zones[k].buildings)} : k \in 1..Len(zones)} :
        zones[p[1]].buildings[p[2]] = i}

\* C19: each building of the global list is in the list of exactly one zone,
\* once, and that zone has the building's type; every building in a zone's
\* list is in the global list; the global count is the sum of the zones'
\* counts; the list of a parks zone is empty.
C19_BuildingsPartitionedByZone ==
    /\ \A i \in 1..Len(buildings) :
            /\ Cardinality(Holders(i)) = 1
            /\ \A p \in Holders(i) : zones[p[1]].zone_type = buildings[i].zone_type
    /\ \A k \in 1..Len(zones) :
            /\ \A n \in 1..Len(zones[k].buildings) :
                    zones[k].buildings[n] \in 1..Len(buildings)
            /\ zones[k].zone_type = PARKS => zones[k].buildings = <<>>
    /\ Len(buildings) = Sum([k \in 1..Len(zones) |-> Len(zones[k].buildings)])

\* a city of several zones has a building
C19_Witness ==
    /\ Len(zones) >= 2
    /\ buildings # <<>>
    /\ pc = "idle"

\* C20: for every valid configuration a generate_city call returns without
\* raising, and generation_complete is true when it has returned.
C20_GenerateCityCompletes ==
    (pc = "idle" /\ last.op = "generate_city") => (~last.raised /\ generation_complete)

\* the cells of the zone grid bearing zone_id, and the first of them in
\* row-major order
CellsOf(zone_id) ==
    {c \in Rect(0, 0, config.width, config.height) : zone_grid[c[2] + 1][c[1] + 1] = zone_id}
FirstCell(zone_id) ==
    CHOOSE c \in CellsOf(zone_id) :
        \A d \in CellsOf(zone_id) : c[2] < d[2] \/ (c[2] = d[2] /\ c[1] <= d[1])

\* the cells of S together with the cells of cs that touch one of them by a side
Grow(S, cs) ==
    S \cup {c \in cs : \E d \in S : Abs(c[1] - d[1]) + Abs(c[2] - d[2]) = 1}

\* the 4-connected component of the cells bearing zone_id that holds the
\* first of them
RECURSIVE Closure(_, _)
Closure(S, cs) == IF Grow(S, cs) = S THEN S ELSE Closure(Grow(S, cs), cs)
Component(zone_id) ==
    IF CellsOf(zone_id) = {} THEN {} ELSE Closure({FirstCell(zone_id)}, CellsOf(zone_id))

\* the zone ids on the grid, in increasing order
PresentIds == SelectSeq([i \in 1..Len(zone_type_map) |-> i], LAMBDA i : CellsOf(i) # {})

\* C21: _find_connected_cells returns, each cell once, exactly the
\* 4-connected component of same-id cells that holds the first cell with that
\* id in row-major order, and the zone made for the id has the tight bounding
\* box of that component.
C21_FloodFillComponent ==
    /\ last.op = "_find_connected_cells" =>
        LET cells == last.ret[1].cells
        IN  /\ \A i \in 1..Len(cells) : \A j \in (i + 1)..Len(cells) : cells[i] # cells[j]
            /\ {cells[i] : i \in 1..Len(cells)} = Component(last.ret[1].zone_id)
    /\ last.op = "_create_zone_objects" =>
        /\ Len(zones) = Len(PresentIds)
        /\ \A k \in 1..Len(PresentIds) :
            LET comp == Component(PresentIds[k])
                xs == {c[1] : c \in comp}
                ys == {c[2] : c \in comp}
            IN  /\ zones[k].x = MinOf(xs)
                /\ zones[k].y = MinOf(ys)
                /\ zones[k].x + zones[k].width - 1 = MaxOf(xs)
                /\ zones[k].y + zones[k].height - 1 = MaxOf(ys)

\* the flood fill has returned the first of two components of an id, smaller
\* than the set of cells bearing the id
C21_Witness ==
    /\ last.op = "_find_connected_cells"
    /\ Len(last.ret[1].cells) >= 3
    /\ Len(last.ret[1].cells) < Cardinality(CellsOf(last.ret[1].zone_id))

\* C22 as stated: after generate_zones there is one zone per seed, with the
\* seed's zone type and the configured density of that type.
C22_OneZonePerSeed ==
    pc = "roads" =>
        /\ Len(zones) = Len(zone_type_map)
        /\ \A i \in 1..Len(zones) :
            /\ zones[i].zone_type = zone_type_map[i]
            /\ zones[i].density = config.zone_densities[zone_type_map[i]]

\* C22, amended: a generate_zones call appends one zone for every seed whose
\* id is on a cell of the grid, in seed order, with the seed's zone type and
\* the configured density of that type; a seed that won no cell has no zone.
C22_OneZonePerSeedOnGrid ==
    pc = "roads" =>
        LET ids == PresentIds
            first == Len(zones) - Len(ids)
        IN  /\ Len(ids) >= 1
            /\ first >= 0
            /\ \A k \in 1..Len(ids) :
                /\ zones[first + k].zone_type = zone_type_map[ids[k]]
                /\ zones[first + k].density = config.zone_densities[zone_type_map[ids[k]]]

\* generate_zones has returned with a seed that won no cell
C22_Witness ==
    /\ pc = "roads"
    /\ Len(PresentIds) < Len(zone_type_map)
    /\ Len(zones) = Len(PresentIds)

\* C23: _draw_line_on_grid stamps max(|dx|, |dy|) + 1 points; the first is the
\* start and the last the end; from one point to the next the major axis
\* advances by 1 and the minor axis by at most 1; when start and end coincide
\* the single point is stamped once.
C23_LineStampsMajorAxisPoints ==
    last.op = "_draw_line_on_grid" =>
        LET call == last.ret[1]
            p == call.points
            dx == Abs(call.end[1] - call.start[1])
            dy == Abs(call.end[2] - call.start[2])
        IN  /\ Len(p) = Max(dx, dy) + 1
            /\ p[1] = call.start
            /\ p[Len(p)] = call.end
            /\ \A i \in 1..(Len(p) - 1) :
                LET mx == Abs(p[i + 1][1] - p[i][1])
                    my == Abs(p[i + 1][2] - p[i][2])
                IN  IF dx > dy THEN mx = 1 /\ my <= 1 ELSE my = 1 /\ mx <= 1
            /\ call.start = call.end => p = <<call.start>>

\* a slanted line has been drawn from outside the plane, its minor axis
\* advancing on some steps and not on others
C23_Witness ==
    /\ last.op = "_draw_line_on_grid"
    /\ last.ret[1].start = <<-2, -1>>
    /\ last.ret[1].end = <<4, 2>>
    /\ Len(last.ret[1].points) = 7

\* the cells within the square of half-extent floor(width / 2) around a
\* rasterized point of the road; widths are in tenths
Stamped(road) ==
    LET half == (road.width \div 10) \div 2
        p == LinePoints(road.start, road.end)
    IN  {c \in Rect(0, 0, config.width, config.height) :
            \E i \in 1..Len(p) : Abs(c[1] - p[i][1]) <= half /\ Abs(c[2] - p[i][2]) <= half}

\* C24: when road generation has ended, a cell of the plane is true in the
\* occupancy grid exactly when it lies within the square of half-extent
\* floor(width / 2) around a rasterized point of a road of the road list, the
\* roads added last included; the grid has no cell outside the plane, and a
\* road point outside the plane raises nothing.
C24_GridIsStampedRoads ==
    (pc = "buildings" /\ bz = 1) =>
        /\ road_grid = UNION {Stamped(roads[i]) : i \in 1..Len(roads)}
        /\ \A c \in road_grid : InPlane(c)
        /\ ~last.raised

\* road generation has ended with a road of half-extent 1 and a road that
\* ends outside the plane
C24_Witness ==
    /\ pc = "buildings" /\ bz = 1
    /\ \E i \in 1..Len(roads) : roads[i].width = 20
    /\ \E i \in 1..Len(roads) : ~InPlane(roads[i].end)
    /\ <<1, 1>> \in road_grid
    /\ road_grid # Rect(0, 0, config.width, config.height)

\* a zone without its building list: type, bounds and density
ZoneFrame(z) == <<z.zone_type, z.x, z.y, z.width, z.height, z.density>>

\* C25: once the road stage has ended, the steps of the building stage and
\* get_city_stats, export_to_json and export_to_obj leave the configuration,
\* the type, bounds and density of every zone, the road list, the
\* intersection map and the occupancy grid as they are; get_city_stats and
\* the exports leave the building lists and the readiness flag as they are
\* too.
C25_LaterStagesKeepRoadsAndZones ==
    [][/\ (pc = "buildings" \/ (pc = "idle" /\ pc' = "idle")) =>
            /\ config' = config
            /\ Len(zones') = Len(zones)
            /\ \A k \in 1..Len(zones) : ZoneFrame(zones'[k]) = ZoneFrame(zones[k])
            /\ zone_grid' = zone_grid
            /\ roads' = roads
            /\ intersections' = intersections
            /\ road_grid' = road_grid
       /\ (pc = "idle" /\ pc' = "idle") =>
            /\ zones' = zones
            /\ buildings' = buildings
            /\ generation_complete' = generation_complete]_vars

\* a building has been placed on a plane with roads, and the city exported
C25_Witness ==
    /\ last.op \in {"export_to_json", "export_to_obj"}
    /\ ~last.raised
    /\ buildings # <<>>
    /\ road_grid # {}
    /\ intersections # <<>>

\* floor(height / 3.5) for a height in metres
FloorsIn(height) == CHOOSE n \in 0..height : 7 * n <= 2 * height /\ 2 * height < 7 * (n + 1)

\* minFloors and maxFloors of a zone type
MinFloors(zone_type) == Max(1, FloorsIn(config.min_building_height[zone_type]))
MaxFloors(zone_type) ==
    Max(MinFloors(zone_type), FloorsIn(config.max_building_height[zone_type]))

\* the bounds on the floors of a building of a zone type
FloorsInRange(zone_type, floors) ==
    /\ floors >= MinFloors(zone_type)
    /\ zone_type = RESIDENTIAL => floors <= Min(MaxFloors(zone_type), 8)
    /\ zone_type \in {COMMERCIAL, LEISURE, INDUSTRIAL} => floors <= MaxFloors(zone_type)

\* C26: every building placed, and every value _generate_building_floors
\* returns, has at least minFloors floors; at most min(maxFloors, 8) when
\* residential; at most maxFloors when commercial, leisure or industrial.
C26_FloorsWithinTypeRange ==
    /\ \A i \in 1..Len(buildings) :
            FloorsInRange(buildings[i].zone_type, buildings[i].floors)
    /\ (last.op = "_generate_building_floors" /\ ~last.raised) =>
            FloorsInRange(last.ret[1].zone_type, last.ret[1].floors)

\* a residential building of 8 floors has been placed where maxFloors is 11
C26_Witness ==
    /\ buildings # <<>>
    /\ buildings[1].zone_type = RESIDENTIAL
    /\ buildings[1].floors = 8
    /\ MaxFloors(RESIDENTIAL) = 11

\* the buildings of the list of zone k
BuildingsOf(k) == [n \in 1..Len(zones[k].buildings) |-> buildings[zones[k].buildings[n]]]

\* C27: every building placed lies inside the bounding rectangle of the zone
\* it was placed in, hence inside the plane, and its width and height are
\* between the minimum and the maximum footprint size of the zone's type.
C27_BuildingInsideZone ==
    \A k \in 1..Len(zones) : \A n \in 1..Len(BuildingsOf(k)) :
        LET b == BuildingsOf(k)[n]
            zone == zones[k]
            lo == _get_min_building_size(zone.zone_type)
            hi == _get_max_building_size(zone.zone_type)
        IN  /\ zone.x <= b.x /\ b.x + b.width <= zone.x + zone.width
            /\ zone.y <= b.y /\ b.y + b.height <= zone.y + zone.height
            /\ 0 <= b.x /\ b.x + b.width <= config.width
            /\ 0 <= b.y /\ b.y + b.height <= config.height
            /\ lo[1] <= b.width /\ b.width <= hi[1]
            /\ lo[2] <= b.height /\ b.height <= hi[2]

\* a building has been placed that ends on the right and bottom sides of its
\* zone, narrower than the maximum footprint
C27_Witness ==
    \E k \in 1..Len(zones) : \E n \in 1..Len(BuildingsOf(k)) :
        LET b == BuildingsOf(k)[n]
        IN  /\ b.x + b.width = zones[k].x + zones[k].width
            /\ b.y + b.height = zones[k].y + zones[k].height
            /\ b.width < _get_max_building_size(zones[k].zone_type)[1]

\* C29: two buildings placed during one scan of a zone have disjoint
\* footprints, and at least the spacing of the zone's type lies between them
\* on one axis.
C29_ZoneBuildingsApart ==
    \A k \in 1..Len(zones) :
        \A n \in 1..Len(BuildingsOf(k)) : \A m \in (n + 1)..Len(BuildingsOf(k)) :
            LET a == BuildingsOf(k)[n]
                b == BuildingsOf(k)[m]
                spacing == _get_building_spacing(zones[k].zone_type)
            IN  /\ Rect(a.x, a.y, a.width, a.height) \cap Rect(b.x, b.y, b.width, b.height) = {}
                /\ \/ a.x + a.width + spacing <= b.x
                   \/ b.x + b.width + spacing <= a.x
                   \/ a.y + a.height + spacing <= b.y
                   \/ b.y + b.height + spacing <= a.y

\* one scan has placed two buildings in a zone, the first of the maximum width
C29_Witness ==
    \E k \in 1..Len(zones) :
        /\ Len(BuildingsOf(k)) = 2
        /\ BuildingsOf(k)[1].width = _get_max_building_size(zones[k].zone_type)[1]
        /\ generation_complete


\* the cells of the plane, as generate_zones visits them
PlaneCells(cfg) == (0..(cfg.width - 1)) \X (0..(cfg.height - 1))

\* the multiplier of zone_type does not grow from cell p to cell q
NoLarger(cfg, zone_type, p, q) ==
    _get_zone_preference(cfg, q[1], q[2], zone_type)
        <= _get_zone_preference(cfg, p[1], p[2], zone_type)

\* C28: when generate_zones has assigned the cells, for any cell p and any
\* cell q at least as far from the centre of the plane, the multiplier of a
\* business or industrial seed at q is no larger than at p, the multiplier of
\* a commercial or leisure seed at p is no larger than at q, and the
\* multiplier of a residential or parks seed is 1 at both.
C28_PreferenceDirections ==
    pc = "roads" =>
        \A p \in PlaneCells(config) : \A q \in PlaneCells(config) :
            NormalizedDistance(config, p[1], p[2]) <= NormalizedDistance(config, q[1], q[2]) =>
                /\ \A t \in {BUSINESS, INDUSTRIAL} : NoLarger(config, t, p, q)
                /\ \A t \in {COMMERCIAL, LEISURE} : NoLarger(config, t, q, p)
                /\ \A t \in {RESIDENTIAL, PARKS} :
                    /\ _get_zone_preference(config, p[1], p[2], t) = 10 * Scale
                    /\ _get_zone_preference(config, q[1], q[2], t) = 10 * Scale

\* C30: while a generate_city call is in progress generation_complete is not
\* true, and when the call has generated its zones the generator holds
\* nothing of an earlier call: the zone list has at most one zone per seed
\* of this call, every zone's building list is empty, and the road list, the
\* intersection map, the occupancy grid and the global building list are
\* empty.
C30_SecondCallStartsAfresh ==
    /\ pc # "idle" => ~generation_complete
    /\ pc = "roads" =>
        /\ Len(zones) <= Len(zone_type_map)
        /\ \A k \in 1..Len(zones) : zones[k].buildings = <<>>
        /\ roads = <<>>
        /\ intersections = <<>>
        /\ road_grid = {}
        /\ buildings = <<>>
====
